---- MODULE Spec2Model ----
(***************************************************************************)
(* Model of the queue-driven task pipeline of fgoslib_bot.                 *)
(*                                                                         *)
(*   hf_worker.py      main(): BRPOP loop over hf_queue feeding a          *)
(*                     ThreadPoolExecutor; process_task(): retries,        *)
(*                     response normalisation, result store, delivery.     *)
(*   render_service.py worker_loop(): BRPOP loop over render_queue,        *)
(*                     pending / ready markers, render_task().             *)
(*   monitor_backend.py simulate_click(): producer of render_queue.        *)
(*                                                                         *)
(* The two services are separate processes that use disjoint Redis keys;   *)
(* the variable svc says which of them a behaviour is about.               *)
(***************************************************************************)
EXTENDS Integers, Sequences, FiniteSets, TLC

VARIABLES
    svc,          \* "hf" | "render": the service the behaviour runs
    hf_queue,     \* Redis list hf_queue: push numbers, head = LPUSH side
    pushed,       \* number of items the producer has pushed to hf_queue
    job,          \* hf_worker: one record per pushed item (its whole life)
    work_queue,   \* ThreadPoolExecutor's internal FIFO of submitted work
    mainPc,       \* hf_worker.main: position of the dequeue loop
    held,         \* hf_worker.main: item popped and not yet submitted (0: none)
    hf_result,    \* Redis keys task_pdf_result:<task_id>
    done,         \* hf_worker: the process_task call that returned last
    crashes,      \* number of times the hf_worker process was killed
    render_queue, \* Redis list render_queue: task ids, head = LPUSH side
    rstore,       \* Redis keys of the render pipeline, <<kind, id>> -> value
    rPc,          \* render_service.worker_loop: position
    rTask,        \* render_service.worker_loop: task id being handled
    rCancel,      \* render_service: start_services cancelled the worker task
    rHist,        \* per task id: "none", or the latest pass over it is
                  \* "active", "ended" (left normally) or "failed" (left by
                  \* an exception)
    clicks,       \* number of simulate_click requests started
    clickPc,      \* monitor_backend.simulate_click: position of the request
    clickTask,    \* monitor_backend.simulate_click: task id of the request
    fn,           \* the function a behaviour applies on its own ("none": none)
    arg,          \* the input of that function
    ret           \* what the function has returned (NoRet: not called yet)

hfVars == <<hf_queue, pushed, job, work_queue, mainPc, held, hf_result, done,
            crashes>>
renderVars == <<render_queue, rstore, rPc, rTask, rCancel, rHist, clicks,
                clickPc, clickTask>>
fnVars == <<fn, arg, ret>>
vars == <<svc, hf_queue, pushed, job, work_queue, mainPc, held, hf_result,
          done, crashes, render_queue, rstore, rPc, rTask, rCancel, rHist,
          clicks, clickPc, clickTask, fn, arg, ret>>

(***************************************************************************)
(* Bounds of the model and configuration of the program.                   *)
(***************************************************************************)
MaxPush == 2
MaxClicks == 2
MaxCrashes == 1
MaxPromptIn == 4
MaxImagesIn == 3

WORKER_CONCURRENCY == 1
RETRIES == 2
MAX_IMAGES == 2
MAX_PROMPT_LEN == 3
USE_GRADIO_CLIENT == TRUE
TG_API_BASE == TRUE

TaskIds == {"t1", "t2"}

(***************************************************************************)
(* hf_worker: queue items.  The producer of hf_queue is outside the        *)
(* repository; an item is a JSON object {task_id, chat_id, task_text,      *)
(* images, user_prompt} or a string that is not JSON.  chat_id 0 stands    *)
(* for a missing chat id.  A text is the sequence of its characters, an    *)
(* image reference is a name.                                              *)
(***************************************************************************)
Item(kind, task_id, chat_id, images, prompt) ==
    [kind |-> kind, task_id |-> task_id, chat_id |-> chat_id,
     images |-> images, prompt |-> prompt]

\* the deny list, with one short word standing for its eleven
BLACKLIST == { <<"b", "o">> }

Items ==
    { Item("task", "t1", 1, <<"i1", "i2", "i3">>, <<"o", "x">>),
      Item("task", "t2", 0, <<>>, <<"B", "o">>),
      Item("task", "t1", 1, <<"i1">>, <<"x", "b", "O">>),
      Item("notjson", "t1", 0, <<>>, <<>>) }

NoItem == Item("none", "t1", 0, <<>>, <<>>)

\* str.lower(), character by character
LowerChar(c) ==
    CASE c = "B" -> "b"
      [] c = "O" -> "o"
      [] c = "X" -> "x"
      [] OTHER -> c

lower(text) == [i \in 1..Len(text) |-> LowerChar(text[i])]

\* `w in low`: w is a substring of low
Contains(low, w) ==
    \E i \in 1..(Len(low) - Len(w) + 1) : SubSeq(low, i, i + Len(w) - 1) = w

\* a deny list matched without lower-casing the prompt
moderate_prompt_cased(prompt) ==
    IF prompt = <<>> THEN TRUE
    ELSE ~ \E w \in BLACKLIST : Contains(prompt, w)

\* True if the prompt is allowed, False if blocked
moderate_prompt(prompt) ==
    IF prompt = <<>> THEN TRUE
    ELSE ~ \E w \in BLACKLIST : Contains(lower(prompt), w)

\* a cut that keeps the last n elements: x[-n:]
TruncateTail(x, n) == IF Len(x) > n THEN SubSeq(x, Len(x) - n + 1, Len(x)) ELSE x

\* `if len(x) > n: x = x[:n]`
Truncate(x, n) == IF Len(x) > n THEN SubSeq(x, 1, n) ELSE x

\* the validated item: images capped, prompt capped
Validate(item) ==
    [item EXCEPT !.images = Truncate(@, MAX_IMAGES),
                 !.prompt = Truncate(@, MAX_PROMPT_LEN)]

\* a moderation that looks at the prompt as submitted
ModeratedAsSubmitted(item) == moderate_prompt(item.prompt)

\* allowed = moderate_prompt(user_prompt), user_prompt already capped
Moderated(item) == moderate_prompt(Validate(item).prompt)

\* the payload of the external call: the validated item, its prompt dropped
\* when moderation rejects it
Payload(item) ==
    LET v == Validate(item) IN
    [v EXCEPT !.prompt = IF Moderated(item) THEN @ ELSE <<>>]

(***************************************************************************)
(* Responses of the external compute service.  A field value is "absent"   *)
(* (key missing), "none" (None), "bad" (the download or the base64         *)
(* decoding raises), "blank" (yields zero bytes) or the bytes it yields.   *)
(***************************************************************************)
El(dict, type, data, url) ==
    [dict |-> dict, type |-> type, data |-> data, url |-> url]

Resp(shape, fb, url, b64, dk, data) ==
    [shape |-> shape, fb |-> fb, url |-> url, b64 |-> b64, dk |-> dk,
     data |-> data]

RespRaise == Resp("raise", "absent", "absent", "absent", "absent", <<>>)
RespEmpty == Resp("empty", "absent", "absent", "absent", "absent", <<>>)
RespNone  == Resp("nothing", "absent", "absent", "absent", "absent", <<>>)
RespInvalid == Resp("dict", "absent", "absent", "absent", "absent", <<>>)
RespNonDict == Resp("nondict", "absent", "absent", "absent", "absent", <<>>)

\* what call_hf_via_gradio_client can do: raise, or return
\* {'markdown', 'file_bytes', 'time'} with file_bytes bytes or None
GradioOutcomes ==
    { RespRaise,
      Resp("dict", "none", "absent", "absent", "absent", <<>>),
      Resp("dict", "pdfA", "absent", "absent", "absent", <<>>) }

\* what call_hf_api can do: raise (every candidate URL failed), or return the
\* JSON body of the first candidate that answered, or 'invalid_response'
HttpOutcomes ==
    { RespRaise, RespEmpty, RespInvalid,
      Resp("dict", "absent", "pdfA", "absent", "absent", <<>>),
      Resp("dict", "absent", "bad", "absent", "absent", <<>>),
      Resp("dict", "absent", "absent", "pdfB", "absent", <<>>),
      Resp("dict", "absent", "absent", "bad", "absent", <<>>),
      Resp("dict", "absent", "absent", "blank", "absent", <<>>),
      Resp("dict", "absent", "absent", "absent", "list",
           << El(FALSE, "none", "absent", "absent"),
              El(TRUE, "pdf", "bad", "absent"),
              El(TRUE, "pdf", "pdfB", "absent") >>),
      Resp("dict", "absent", "absent", "absent", "list",
           << El(TRUE, "other", "pdfA", "absent"),
              El(TRUE, "pdf", "absent", "bad") >>) }

BytesOf(v) == IF v = "blank" THEN "" ELSE v

\* the loop over resp['data']: the bytes of the first usable element, "" if none
RECURSIVE ScanData(_)
ScanData(els) ==
    IF els = <<>> THEN ""
    ELSE LET el == Head(els) IN
         IF el.dict /\ el.type = "pdf" /\ el.data \notin {"absent", "bad"}
         THEN BytesOf(el.data)
         ELSE IF el.dict /\ el.url \notin {"absent", "bad"}
         THEN BytesOf(el.url)
         ELSE ScanData(Tail(els))

Out(kind, bytes, err) == [kind |-> kind, bytes |-> bytes, err |-> err]

\* a non-empty response with no file_bytes, no pdf_url, no pdf_base64 and no
\* usable element in a 'data' list
Unrecognized(resp) ==
    /\ resp.shape \in {"dict", "nondict"}
    /\ resp.shape = "dict" =>
         /\ resp.fb \in {"absent", "none", "blank"}
         /\ resp.url = "absent"
         /\ resp.b64 = "absent"
         /\ resp.dk = "list" => ScanData(resp.data) = ""

\* a response handling that treats an unrecognized response like a failed
\* call, to be retried
HandleRespRetrying(resp) ==
    IF resp.shape \in {"raise", "empty"} \/ Unrecognized(resp)
    THEN Out("raise", "", "exception")
    ELSE Out("ok", "pdfA", "")

\* a response handling that looks at pdf_base64 before pdf_url
HandleRespBase64First(resp) ==
    IF resp.shape \in {"raise", "empty"} THEN Out("raise", "", "exception")
    ELSE
      LET isDict == resp.shape = "dict"
          fb == IF isDict /\ resp.fb \notin {"absent", "none", "blank"}
                THEN resp.fb ELSE ""
      IN  IF fb # "" THEN Out("ok", fb, "")
          ELSE IF isDict /\ resp.b64 # "absent"
          THEN IF resp.b64 = "bad" THEN Out("raise", "", "exception")
               ELSE Out("ok", BytesOf(resp.b64), "")
          ELSE IF isDict /\ resp.url # "absent"
          THEN IF resp.url = "bad" THEN Out("raise", "", "exception")
               ELSE Out("ok", BytesOf(resp.url), "")
          ELSE LET b == IF isDict /\ resp.dk = "list"
                        THEN ScanData(resp.data) ELSE ""
               IN  IF b = "" THEN Out("nopdf", "", "no_pdf_in_hf_response")
                   ELSE Out("ok", b, "")

\* the response handling of one attempt of process_task:
\*   "raise"   an exception reaches the retry handler
\*   "ok"      pdf_bytes found
\*   "nopdf"   no recognizable pdf: error no_pdf_in_hf_response
\*   "nobytes" a recognized field gave zero bytes: error no_pdf_bytes
HandleResp(resp) ==
    IF resp.shape = "raise" THEN Out("raise", "", "exception")
    ELSE IF resp.shape = "empty" THEN Out("raise", "", "exception")
    ELSE
      LET isDict == resp.shape = "dict"
          fb == IF isDict /\ resp.fb \notin {"absent", "none", "blank"}
                THEN resp.fb ELSE ""
      IN  IF fb # "" THEN Out("ok", fb, "")
          ELSE IF isDict /\ resp.url # "absent"
          THEN IF resp.url = "bad" THEN Out("raise", "", "exception")
               ELSE IF BytesOf(resp.url) = "" THEN Out("nobytes", "", "no_pdf_bytes")
               ELSE Out("ok", BytesOf(resp.url), "")
          ELSE IF isDict /\ resp.b64 # "absent"
          THEN IF resp.b64 = "bad" THEN Out("raise", "", "exception")
               ELSE IF BytesOf(resp.b64) = "" THEN Out("nobytes", "", "no_pdf_bytes")
               ELSE Out("ok", BytesOf(resp.b64), "")
          ELSE LET b == IF isDict /\ resp.dk = "list"
                        THEN ScanData(resp.data) ELSE ""
               IN  IF b = "" THEN Out("nopdf", "", "no_pdf_in_hf_response")
                   ELSE Out("ok", b, "")

\* the response one attempt works on: the structured client's when it is
\* enabled and returns, else call_hf_api's
CallResult(g, h) == IF USE_GRADIO_CLIENT /\ g.shape # "raise" THEN g ELSE h

\* every response an attempt can get
Responses == {CallResult(g, h) : g \in GradioOutcomes, h \in HttpOutcomes}

(***************************************************************************)
(* hf_worker: the result store and the per-item record.                    *)
(***************************************************************************)
Result(status, error, pdf, response) ==
    [status |-> status, error |-> error, pdf |-> pdf, response |-> response]

NoResult == Result("none", "", "", RespNone)

\* job[j]: st is where the item is ("none", "queued" in hf_queue, "held" by
\* main, "dropped" as invalid JSON, "pool" in the executor's queue, "run" in
\* process_task, "done", "lost"); attempt is process_task's variable; tries
\* counts the external calls made, slept is the last back-off, msgs the text
\* messages and documents sent so far, unrec says that the response of the
\* last attempt was of no recognized shape
NoJob ==
    [st |-> "none", item |-> NoItem, attempt |-> 0, tries |-> 0, slept |-> 0,
     msgs |-> <<>>, unrec |-> FALSE]

\* done: the call that returned last, with the results it saved
NoDone ==
    [j |-> 0, item |-> NoItem, attempt |-> 0, tries |-> 0, slept |-> 0,
     msgs |-> <<>>, unrec |-> FALSE, saves |-> <<>>]

Finished(j, jb, tries, unrec, msgs, saves) ==
    [j |-> j, item |-> jb.item, attempt |-> jb.attempt, tries |-> tries,
     slept |-> jb.slept, msgs |-> msgs, unrec |-> unrec, saves |-> saves]

\* what stays of a job once its call has returned
Closed(jb) == [NoJob EXCEPT !.st = "done", !.item = jb.item]

JobIds == 1..MaxPush

Active == {j \in JobIds : job[j].st = "run"}

\* save_result_to_redis: r.set under task_pdf_result:<task_id>; a store
\* failure (up = FALSE) is logged and changes nothing
save_result_to_redis(store, task_id, result, up) ==
    IF up THEN [store EXCEPT ![task_id] = result] ELSE store

\* a text message is posted only with a token and a chat id
CanNotify(item) == TG_API_BASE /\ item.chat_id # 0

Notify(item, msgs, text) == IF CanNotify(item) THEN Append(msgs, text) ELSE msgs

\* the octets of the byte strings that reach the result store
Octets(bytes) ==
    CASE bytes = "pdfA" -> <<112, 100, 102, 65>>
      [] bytes = "pdfB" -> <<112, 100, 102, 66>>
      [] OTHER -> <<>>

\* the base64 alphabet: the character of each 6-bit value, from 0
B64Alphabet ==
    << "A", "B", "C", "D", "E", "F", "G", "H", "I", "J", "K", "L", "M",
       "N", "O", "P", "Q", "R", "S", "T", "U", "V", "W", "X", "Y", "Z",
       "a", "b", "c", "d", "e", "f", "g", "h", "i", "j", "k", "l", "m",
       "n", "o", "p", "q", "r", "s", "t", "u", "v", "w", "x", "y", "z",
       "0", "1", "2", "3", "4", "5", "6", "7", "8", "9", "+", "/" >>

B64Char(v) == B64Alphabet[v + 1]

B64Value(c) == (CHOOSE i \in 1..64 : B64Alphabet[i] = c) - 1

\* base64.b64encode over octets: three octets give four characters, a last
\* group of one or two octets is padded with '='
RECURSIVE b64chars(_)
b64chars(octets) ==
    IF octets = <<>> THEN <<>>
    ELSE
      LET k == IF Len(octets) >= 3 THEN 3 ELSE Len(octets)
          n == octets[1] * 65536
                 + (IF k >= 2 THEN octets[2] * 256 ELSE 0)
                 + (IF k >= 3 THEN octets[3] ELSE 0)
          c1 == B64Char(n \div 262144)
          c2 == B64Char((n \div 4096) % 64)
          c3 == IF k >= 2 THEN B64Char((n \div 64) % 64) ELSE "="
          c4 == IF k >= 3 THEN B64Char(n % 64) ELSE "="
      IN  <<c1, c2, c3, c4>> \o b64chars(SubSeq(octets, k + 1, Len(octets)))

\* a decoder that takes padding for data
RECURSIVE b64decode_padded(_)
b64decode_padded(chars) ==
    IF Len(chars) < 4 THEN <<>>
    ELSE
      LET v(i) == IF chars[i] = "=" THEN 0 ELSE B64Value(chars[i])
          n == v(1) * 262144 + v(2) * 4096 + v(3) * 64 + v(4)
      IN  <<n \div 65536, (n \div 256) % 256, n % 256>>
             \o b64decode_padded(SubSeq(chars, 5, Len(chars)))

\* base64.b64decode of a well-formed text: four characters give three
\* octets, less one for each '=' of the group
RECURSIVE b64decode(_)
b64decode(chars) ==
    IF Len(chars) < 4 THEN <<>>
    ELSE
      LET v(i) == IF chars[i] = "=" THEN 0 ELSE B64Value(chars[i])
          n == v(1) * 262144 + v(2) * 4096 + v(3) * 64 + v(4)
          k == IF chars[3] = "=" THEN 1 ELSE IF chars[4] = "=" THEN 2 ELSE 3
      IN  SubSeq(<<n \div 65536, (n \div 256) % 256, n % 256>>, 1, k)
             \o b64decode(SubSeq(chars, 5, Len(chars)))

\* .decode('ascii'): the characters as one string
RECURSIVE Join(_)
Join(chars) == IF chars = <<>> THEN "" ELSE Head(chars) \o Join(Tail(chars))

\* base64.b64encode(pdf_bytes).decode('ascii')
b64encode(bytes) == Join(b64chars(Octets(bytes)))

(***************************************************************************)
(* hf_worker: the producer, and main()'s dequeue loop.                     *)
(***************************************************************************)
\* LPUSH hf_queue <item>
Enqueue(it) ==
    /\ pushed < MaxPush
    /\ pushed' = pushed + 1
    /\ job' = [job EXCEPT ![pushed + 1] = [NoJob EXCEPT !.st = "queued", !.item = it]]
    /\ hf_queue' = <<pushed + 1>> \o hf_queue
    /\ UNCHANGED <<work_queue, mainPc, held, hf_result, done, crashes>>

\* item = r.brpop('hf_queue', timeout=5) returns an item: the tail of the list
BrpopItem ==
    /\ mainPc = "brpop"
    /\ hf_queue # <<>>
    /\ LET j == hf_queue[Len(hf_queue)] IN
         /\ held' = j
         /\ job' = [job EXCEPT ![j].st = "held"]
    /\ hf_queue' = SubSeq(hf_queue, 1, Len(hf_queue) - 1)
    /\ mainPc' = "popped"
    /\ UNCHANGED <<pushed, work_queue, hf_result, done, crashes>>

\* the pop times out with no item: `if not item: continue`
BrpopTimeout ==
    /\ mainPc = "brpop"
    /\ hf_queue = <<>>
    /\ mainPc' = "polled"
    /\ UNCHANGED <<hf_queue, pushed, job, work_queue, held, hf_result, done, crashes>>

\* a loop that ends when the pop timed out
PollAgainReturns ==
    /\ mainPc = "polled"
    /\ mainPc' = "returned"
    /\ UNCHANGED <<hf_queue, pushed, job, work_queue, held, hf_result, done, crashes>>

\* `continue`: the next iteration of `while True`
PollAgain ==
    /\ mainPc = "polled"
    /\ mainPc' = "brpop"
    /\ UNCHANGED <<hf_queue, pushed, job, work_queue, held, hf_result, done, crashes>>

\* the queue read raises: `except Exception: logger.exception(...)`, then
\* time.sleep(1)
BrpopError ==
    /\ mainPc = "brpop"
    /\ mainPc' = "backoff"
    /\ UNCHANGED <<hf_queue, pushed, job, work_queue, held, hf_result, done, crashes>>

\* time.sleep(1) is over: the next iteration of `while True`
BackoffDone ==
    /\ mainPc = "backoff"
    /\ mainPc' = "brpop"
    /\ UNCHANGED <<hf_queue, pushed, job, work_queue, held, hf_result, done, crashes>>

\* json.loads(raw) raises: logged, `continue`
InvalidJson ==
    /\ mainPc = "popped"
    /\ job[held].item.kind = "notjson"
    /\ job' = [job EXCEPT ![held].st = "dropped"]
    /\ held' = 0
    /\ mainPc' = "brpop"
    /\ UNCHANGED <<hf_queue, pushed, work_queue, hf_result, done, crashes>>

\* executor.submit(process_task, data): never blocks, the work item joins the
\* executor's unbounded queue
Submit ==
    /\ mainPc = "popped"
    /\ job[held].item.kind = "task"
    /\ job' = [job EXCEPT ![held].st = "pool"]
    /\ work_queue' = Append(work_queue, held)
    /\ held' = 0
    /\ mainPc' = "brpop"
    /\ UNCHANGED <<hf_queue, pushed, hf_result, done, crashes>>

\* the positions of main() inside `while True`
InLoop == {"brpop", "polled", "popped", "backoff"}

\* KeyboardInterrupt in the main thread, anywhere in the loop: logged, then
\* `finally: executor.shutdown(wait=True)`; an item popped and not yet
\* submitted is dropped with the frame
KeyboardInterrupt ==
    /\ mainPc \in InLoop
    /\ mainPc' = "draining"
    /\ job' = IF held # 0 THEN [job EXCEPT ![held].st = "lost"] ELSE job
    /\ held' = 0
    /\ UNCHANGED <<hf_queue, pushed, work_queue, hf_result, done, crashes>>

\* a shutdown that does not wait for the pool: executor.shutdown(wait=False)
ShutdownNoWait == TRUE

\* executor.shutdown(wait=True) returns once the pool has run all its work
ShutdownDone ==
    \A j \in JobIds : job[j].st \notin {"pool", "run"}

MainReturn ==
    /\ mainPc = "draining"
    /\ ShutdownDone
    /\ mainPc' = "returned"
    /\ UNCHANGED <<hf_queue, pushed, job, work_queue, held, hf_result, done, crashes>>

(***************************************************************************)
(* hf_worker: the thread pool and process_task.                            *)
(***************************************************************************)
\* a pool without a limit on its threads
CanStartUnbounded == TRUE

\* ThreadPoolExecutor(max_workers=WORKER_CONCURRENCY): a work item starts
\* only while fewer than max_workers threads are busy
CanStart == Cardinality(Active) < WORKER_CONCURRENCY

\* a pool thread takes the oldest work item and enters process_task:
\* validation, moderation (notice, prompt dropped), payload, attempt = 0
StartWork ==
    /\ work_queue # <<>>
    /\ CanStart
    /\ LET j == Head(work_queue)
           it == job[j].item
           allowed == Moderated(it)
       IN  job' = [job EXCEPT ![j].st = "run",
                              ![j].attempt = 0,
                              ![j].item = Payload(it),
                              ![j].msgs = IF allowed THEN @
                                          ELSE Notify(it, @, "moderation")]
    /\ work_queue' = Tail(work_queue)
    /\ UNCHANGED <<hf_queue, pushed, mainPc, held, hf_result, done, crashes>>

\* a retry loop that gives up one attempt early: `while attempt < RETRIES`
MayAttemptShort(attempt) == attempt < RETRIES

\* `while attempt <= RETRIES`
MayAttempt(attempt) == attempt <= RETRIES

\* time.sleep(1 + attempt * 2), attempt already incremented
Backoff(attempt) == 1 + attempt * 2

\* process_task returns: its last save, its last message
Return(j, tries, unrec, res, text, up) ==
    LET it == job[j].item
        msgs == IF text = "" THEN job[j].msgs ELSE Notify(it, job[j].msgs, text)
    IN  /\ hf_result' = save_result_to_redis(hf_result, it.task_id, res, up)
        /\ done' = Finished(j, job[j], tries, unrec, msgs, <<res>>)
        /\ job' = [job EXCEPT ![j] = Closed(job[j])]

\* one pass of the retry loop's body: the external call (structured client,
\* HTTP fallback), the response handling, and what follows from it
Attempt(j, resp, up) ==
    /\ job[j].st = "run"
    /\ MayAttempt(job[j].attempt)
    /\ LET out == HandleResp(resp)
           tries == job[j].tries + 1
           unrec == Unrecognized(resp)
       IN  CASE out.kind = "raise" ->
                  /\ job' = [job EXCEPT ![j].tries = tries,
                                        ![j].unrec = unrec,
                                        ![j].attempt = @ + 1,
                                        ![j].slept = Backoff(job[j].attempt + 1)]
                  /\ UNCHANGED <<hf_result, done>>
             [] out.kind = "nopdf" ->
                  Return(j, tries, unrec, Result("error", out.err, "", resp),
                         "format_error", up)
             [] out.kind = "ok" ->
                  Return(j, tries, unrec,
                         Result("ok", "", b64encode(out.bytes), RespNone),
                         "document", up)
             [] OTHER ->
                  Return(j, tries, unrec, Result("error", out.err, "", RespNone),
                         "", up)
    /\ UNCHANGED <<hf_queue, pushed, work_queue, mainPc, held, crashes>>

\* after the loop: the terminal error result and the failure notification
AfterRetries(j, up) ==
    /\ job[j].st = "run"
    /\ ~MayAttempt(job[j].attempt)
    /\ Return(j, job[j].tries, job[j].unrec,
              Result("error", "exception", "", RespNone), "final_error", up)
    /\ UNCHANGED <<hf_queue, pushed, work_queue, mainPc, held, crashes>>

\* the hf_worker process is killed and started again: what it held in memory
\* (the item just popped, the pool's queue, the running calls) is gone
Crash ==
    /\ crashes < MaxCrashes
    /\ mainPc # "returned"
    /\ crashes' = crashes + 1
    /\ job' = [j \in JobIds |->
                 IF job[j].st \in {"held", "pool", "run"}
                 THEN [job[j] EXCEPT !.st = "lost"] ELSE job[j]]
    /\ work_queue' = <<>>
    /\ held' = 0
    /\ mainPc' = "brpop"
    /\ UNCHANGED <<hf_queue, pushed, hf_result, done>>

(***************************************************************************)
(* The render pipeline's Redis keys.  A key holds "none" (never written    *)
(* or deleted), "expired" (its TTL ran out) or its value.                  *)
(***************************************************************************)
RKinds == {"task", "task_pending", "task_ready", "task_pdf", "task_pdf_url"}

RKeys == RKinds \X TaskIds

Live(v) == v \notin {"none", "expired"}

\* r.set(key, value, ex=REDIS_TTL)
RSet(store, kind, id, value) == [store EXCEPT ![<<kind, id>>] = value]

\* r.delete(key)
RDelete(store, kind, id) == [store EXCEPT ![<<kind, id>>] = "none"]

\* the TTL of a key runs out
RExpire(k) ==
    /\ Live(rstore[k])
    /\ rstore' = [rstore EXCEPT ![k] = "expired"]
    /\ UNCHANGED <<render_queue, rPc, rTask, rCancel, rHist, clicks, clickPc,
                   clickTask>>

(***************************************************************************)
(* monitor_backend.simulate_click: task:<id>, then LPUSH, then the         *)
(* pending marker; an exception of a store call ends the request (500).    *)
(***************************************************************************)
\* a request that pushes the id without having stored the task
ClickSkipTask(t) ==
    /\ clickPc = "idle"
    /\ clicks < MaxClicks
    /\ clicks' = clicks + 1
    /\ clickTask' = t
    /\ clickPc' = "lpush"
    /\ UNCHANGED <<render_queue, rstore, rPc, rTask, rCancel, rHist>>

\* r.set(f"task:{task_id}", json.dumps(task_obj), ex=REDIS_TTL)
ClickSetTask(t) ==
    /\ clickPc = "idle"
    /\ clicks < MaxClicks
    /\ clicks' = clicks + 1
    /\ clickTask' = t
    /\ rstore' = RSet(rstore, "task", t, "obj")
    /\ clickPc' = "lpush"
    /\ UNCHANGED <<render_queue, rPc, rTask, rCancel, rHist>>

\* a producer that adds at the tail, the end BRPOP takes from
ClickPushTail ==
    /\ clickPc = "lpush"
    /\ render_queue' = Append(render_queue, clickTask)
    /\ clickPc' = "set_pending"
    /\ UNCHANGED <<rstore, rPc, rTask, rCancel, rHist, clicks, clickTask>>

\* r.lpush('render_queue', task_id)
ClickPush ==
    /\ clickPc = "lpush"
    /\ render_queue' = <<clickTask>> \o render_queue
    /\ clickPc' = "set_pending"
    /\ UNCHANGED <<rstore, rPc, rTask, rCancel, rHist, clicks, clickTask>>

ClickSetPending ==
    /\ clickPc = "set_pending"
    /\ rstore' = RSet(rstore, "task_pending", clickTask, "1")
    /\ clickPc' = "idle"
    /\ UNCHANGED <<render_queue, rPc, rTask, rCancel, rHist, clicks, clickTask>>

ClickError ==
    /\ clickPc \in {"lpush", "set_pending"}
    /\ clickPc' = "idle"
    /\ UNCHANGED <<render_queue, rstore, rPc, rTask, rCancel, rHist, clicks,
                   clickTask>>

(***************************************************************************)
(* render_service.worker_loop and render_task.                             *)
(***************************************************************************)
\* `except Exception` of worker_loop: logged, then asyncio.sleep(1); the
\* pass over the task is left
LoopExcept ==
    /\ rPc' = "backoff"
    /\ rHist' = [rHist EXCEPT ![rTask] = IF @ = "active" THEN "failed" ELSE @]

\* item = r.brpop('render_queue', timeout=5) returns a task id
RPop ==
    /\ rPc = "brpop"
    /\ render_queue # <<>>
    /\ LET t == render_queue[Len(render_queue)] IN
         /\ rTask' = t
         /\ rHist' = [rHist EXCEPT ![t] = "active"]
    /\ render_queue' = SubSeq(render_queue, 1, Len(render_queue) - 1)
    /\ rPc' = "claim"
    /\ UNCHANGED <<rstore, rCancel, clicks, clickPc, clickTask>>

\* the pop times out: `await asyncio.sleep(0.1); continue`
RTimeout ==
    /\ rPc = "brpop"
    /\ render_queue = <<>>
    /\ rPc' = "nap"
    /\ UNCHANGED <<render_queue, rstore, rTask, rCancel, rHist, clicks,
                   clickPc, clickTask>>

\* the queue read raises
RQueueError ==
    /\ rPc = "brpop"
    /\ LoopExcept
    /\ UNCHANGED <<render_queue, rstore, rTask, rCancel, clicks, clickPc,
                   clickTask>>

\* asyncio.sleep(0.1) is over
RNapDone ==
    /\ rPc = "nap"
    /\ rPc' = "brpop"
    /\ UNCHANGED <<render_queue, rstore, rTask, rCancel, rHist, clicks,
                   clickPc, clickTask>>

\* asyncio.sleep(1) is over
RBackoffDone ==
    /\ rPc = "backoff"
    /\ rPc' = "brpop"
    /\ UNCHANGED <<render_queue, rstore, rTask, rCancel, rHist, clicks,
                   clickPc, clickTask>>

\* r.set(f"task_pending:{task_id}", '1', ex=REDIS_TTL)
RClaim(up) ==
    /\ rPc = "claim"
    /\ IF up
       THEN /\ rstore' = RSet(rstore, "task_pending", rTask, "1")
            /\ rPc' = "load"
            /\ UNCHANGED rHist
       ELSE /\ LoopExcept
            /\ UNCHANGED rstore
    /\ UNCHANGED <<render_queue, rTask, rCancel, clicks, clickPc, clickTask>>

\* render_task: raw = r.get(f"task:{task_id}"); `if not raw: return`
RLoad(up) ==
    /\ rPc = "load"
    /\ IF ~up THEN LoopExcept
       ELSE /\ rPc' = IF Live(rstore[<<"task", rTask>>]) THEN "launch"
                      ELSE "mark_ready"
            /\ UNCHANGED rHist
    /\ UNCHANGED <<render_queue, rstore, rTask, rCancel, clicks, clickPc, clickTask>>

\* async_playwright(), chromium.launch, new_context, new_page: outside the
\* try of render_task, so an exception reaches worker_loop
RLaunch(ok) ==
    /\ rPc = "launch"
    /\ IF ok
       THEN /\ rPc' = "page"
            /\ UNCHANGED rHist
       ELSE LoopExcept
    /\ UNCHANGED <<render_queue, rstore, rTask, rCancel, clicks, clickPc, clickTask>>

\* set_content ... page.pdf: inside the try; an exception is logged there
\* and render_task returns
RPage(ok) ==
    /\ rPc = "page"
    /\ rPc' = IF ok THEN "cache" ELSE "mark_ready"
    /\ UNCHANGED <<render_queue, rstore, rTask, rCancel, rHist, clicks,
                   clickPc, clickTask>>

\* the artifact is cached: task_pdf_url when the S3 upload gave a URL, else
\* task_pdf (base64); a raising r.set is caught by render_task's except, and
\* notify_user_with_file is skipped
RCache(how) ==
    /\ rPc = "cache"
    /\ CASE how = "url" ->
              /\ rstore' = RSet(rstore, "task_pdf_url", rTask, "url")
              /\ rPc' = "notify"
         [] how = "b64" ->
              /\ rstore' = RSet(rstore, "task_pdf", rTask, "b64pdf")
              /\ rPc' = "notify"
         [] OTHER ->
              /\ rPc' = "mark_ready"
              /\ UNCHANGED rstore
    /\ UNCHANGED <<render_queue, rTask, rCancel, rHist, clicks, clickPc, clickTask>>

\* await notify_user_with_file(...): never raises, writes nothing
RNotify ==
    /\ rPc = "notify"
    /\ rPc' = "mark_ready"
    /\ UNCHANGED <<render_queue, rstore, rTask, rCancel, rHist, clicks,
                   clickPc, clickTask>>

\* a worker that deletes the pending marker first and writes the ready
\* marker after it
RMarkReadyAfterUnpend(up) ==
    /\ rPc = "mark_ready"
    /\ IF up
       THEN /\ rstore' = RDelete(rstore, "task_pending", rTask)
            /\ rPc' = "unpend"
            /\ UNCHANGED rHist
       ELSE /\ LoopExcept
            /\ UNCHANGED rstore
    /\ UNCHANGED <<render_queue, rTask, rCancel, clicks, clickPc, clickTask>>

\* r.set(f"task_ready:{task_id}", '1', ex=REDIS_TTL)
RMarkReady(up) ==
    /\ rPc = "mark_ready"
    /\ IF up
       THEN /\ rstore' = RSet(rstore, "task_ready", rTask, "1")
            /\ rPc' = "unpend"
            /\ UNCHANGED rHist
       ELSE /\ LoopExcept
            /\ UNCHANGED rstore
    /\ UNCHANGED <<render_queue, rTask, rCancel, clicks, clickPc, clickTask>>

\* r.delete(f"task_pending:{task_id}"), then the next iteration
RUnpend(up) ==
    /\ rPc = "unpend"
    /\ IF up
       THEN /\ rstore' = RDelete(rstore, "task_pending", rTask)
            /\ rPc' = "brpop"
            /\ rHist' = [rHist EXCEPT ![rTask] = "ended"]
       ELSE /\ LoopExcept
            /\ UNCHANGED rstore
    /\ UNCHANGED <<render_queue, rTask, rCancel, clicks, clickPc, clickTask>>

\* the awaits at which the worker task is suspended
SuspensionPoints == {"nap", "backoff", "launch", "page"}

\* start_services is cancelled: `finally: worker_task.cancel()`.  The
\* CancelledError is raised at the await the worker is suspended in; it is
\* no Exception, so neither render_task nor worker_loop catches it
RCancelled ==
    /\ ~rCancel
    /\ rPc \in SuspensionPoints
    /\ rCancel' = TRUE
    /\ rPc' = "exited"
    /\ UNCHANGED <<render_queue, rstore, rTask, rHist, clicks, clickPc, clickTask>>

(***************************************************************************)
(* Functions applied on their own: fn names the function, arg is its       *)
(* input, ret what it returned.                                            *)
(***************************************************************************)
NoRet == [kind |-> "none"]

\* all sequences over S of length at most n
SeqsUpTo(S, n) == UNION {[1..k -> S] : k \in 0..n}

Alphabet == {"b", "B", "o", "x"}

ImageRefs == {"i1", "i2"}

\* process_task up to the external call: the item, and whether the post of
\* the moderation notice goes through ("ok") or raises
PreludeArgs ==
    [item : {Item("task", "t1", c, im, pr) :
                c \in {0, 1},
                im \in SeqsUpTo(ImageRefs, MaxImagesIn),
                pr \in SeqsUpTo(Alphabet, MaxPromptIn)},
     post : {"ok", "raise"}]

\* the moderation notice: "none" (prompt allowed), "skipped" (no token or no
\* chat id), "posted", or "failed" (requests.post raised)
Notice(item, post) ==
    IF Moderated(item) THEN "none"
    ELSE IF ~CanNotify(item) THEN "skipped"
    ELSE IF post = "raise" THEN "failed"
    ELSE "posted"

\* a notice whose failure is not caught and ends process_task
AfterNoticeUncaught(notice) == IF notice = "failed" THEN "raised" ELSE "call"

\* `except Exception: logger.exception(...)`: whatever became of the
\* notice, process_task goes on to build the payload and call
AfterNotice(notice) == "call"

Prelude(item, post) ==
    [kind |-> "prelude",
     payload |-> Payload(item),
     notice |-> Notice(item, post),
     next |-> AfterNotice(Notice(item, post))]

ApplyPrelude ==
    /\ fn = "prelude"
    /\ ret = NoRet
    /\ ret' = Prelude(arg.item, arg.post)
    /\ UNCHANGED <<fn, arg>>

(***************************************************************************)
(* One attempt's external call: the structured client, then call_hf_api    *)
(* over its candidate URLs.                                                *)
(***************************************************************************)
\* urls_to_try: HF_API_URL when configured, then the embed URL and the
\* direct Space URL when HF_SPACE has the form owner/repo
urls_to_try(api_url, space_ok) ==
    (IF api_url THEN <<"HF_API_URL">> ELSE <<>>)
       \o (IF space_ok THEN <<"embed_url", "direct_url">> ELSE <<>>)

CandidateUrls == {"HF_API_URL", "embed_url", "direct_url"}

\* what the POST to one candidate does: a 2xx with a JSON body, a 2xx with a
\* body that is no JSON, a status that raise_for_status rejects, or an
\* exception of the request
PostOutcomes == {"json", "notjson", "http_error", "exception"}

NoExc == [url |-> "none", kind |-> "none"]

\* a loop over the candidates that gives up at the first failure
TryUrlsOnce(urls, outcome, called, last_exc) ==
    IF urls = <<>>
    THEN [kind |-> "raise", from |-> "none", body |-> "none", err |-> last_exc,
          called |-> called]
    ELSE LET url == Head(urls) IN
         IF outcome[url] \in {"json", "notjson"}
         THEN [kind |-> "return", from |-> url, body |-> outcome[url],
               err |-> NoExc, called |-> Append(called, url)]
         ELSE [kind |-> "raise", from |-> "none", body |-> "none",
               err |-> [url |-> url, kind |-> outcome[url]],
               called |-> Append(called, url)]

\* `for url in urls_to_try`: the first candidate that answers 2xx ends the
\* loop with its body; a failure is kept in last_exc and the next candidate
\* is tried; after the loop last_exc is raised (RuntimeError if there was no
\* candidate).  called lists the candidates posted to
RECURSIVE TryUrls(_, _, _, _)
TryUrls(urls, outcome, called, last_exc) ==
    IF urls = <<>>
    THEN [kind |-> "raise", from |-> "none", body |-> "none", err |-> last_exc,
          called |-> called]
    ELSE LET url == Head(urls) IN
         IF outcome[url] \in {"json", "notjson"}
         THEN [kind |-> "return", from |-> url, body |-> outcome[url],
               err |-> NoExc, called |-> Append(called, url)]
         ELSE TryUrls(Tail(urls), outcome, Append(called, url),
                      [url |-> url, kind |-> outcome[url]])

call_hf_api(api_url, space_ok, outcome) ==
    TryUrls(urls_to_try(api_url, space_ok), outcome, <<>>, NoExc)

\* the strategies one attempt calls, in order: the structured client when
\* enabled, call_hf_api when resp is still None after it
Strategies(g) ==
    IF ~USE_GRADIO_CLIENT THEN <<"http">>
    ELSE IF g.shape = "raise" THEN <<"gradio", "http">>
    ELSE <<"gradio">>

CallArgs ==
    [g : GradioOutcomes, api_url : BOOLEAN, space_ok : BOOLEAN,
     outcome : [CandidateUrls -> PostOutcomes]]

NoHttp == [kind |-> "none", from |-> "none", body |-> "none", err |-> NoExc,
           called |-> <<>>]

ApplyCall ==
    /\ fn = "call"
    /\ ret = NoRet
    /\ LET st == Strategies(arg.g) IN
       ret' = [kind |-> "call",
               strategies |-> st,
               http |-> IF st[Len(st)] = "http"
                        THEN call_hf_api(arg.api_url, arg.space_ok, arg.outcome)
                        ELSE NoHttp]
    /\ UNCHANGED <<fn, arg>>

(***************************************************************************)
(* The response handling of one attempt over loosely typed responses: any  *)
(* combination of file_bytes, pdf_url, pdf_base64 and a 'data' list.  Each *)
(* field yields bytes of its own, so the field used shows in the outcome.  *)
(***************************************************************************)
MaxData == 2

\* the elements of a 'data' list: a dict with or without 'type', 'data' and
\* 'url', or something that is no dict
DataEls ==
    { El(TRUE, t, d, u) : t \in {"pdf", "other", "none"},
                          d \in {"absent", "bad", "pdfD"},
                          u \in {"absent", "bad", "pdfE"} }
       \cup { El(FALSE, "none", "absent", "absent") }

HandleArgs ==
    { Resp("dict", fb, url, b64, "list", data) :
         fb \in {"absent", "none", "pdfF"},
         url \in {"absent", "bad", "pdfU"},
         b64 \in {"absent", "bad", "pdfB"},
         data \in SeqsUpTo(DataEls, MaxData) }
       \cup
    { Resp("dict", fb, url, b64, "absent", <<>>) :
         fb \in {"absent", "none", "pdfF"},
         url \in {"absent", "bad", "pdfU"},
         b64 \in {"absent", "bad", "pdfB"} }

ApplyHandle ==
    /\ fn = "handle"
    /\ ret = NoRet
    /\ ret' = [kind |-> "handle", out |-> HandleResp(arg)]
    /\ UNCHANGED <<fn, arg>>

(***************************************************************************)
(* The artifact cache: one key written with r.set(key, base64, ex=ttl),    *)
(* read with r.get and decoded.  Time is counted in ticks; a key written   *)
(* at tick t with ex=ttl is gone from tick t + ttl on.                     *)
(***************************************************************************)
MaxBytes == 4
MaxTTL == 2
MaxClock == 4

ByteVals == {0, 65, 255}

\* the artifacts: byte strings of one octet or more
Artifacts == SeqsUpTo(ByteVals, MaxBytes) \ {<<>>}

CacheArgs == [bytes : Artifacts, ttl : 1..MaxTTL]

NoRead == [kind |-> "none", bytes |-> <<>>, live |-> FALSE]

\* the key is not set, nothing has been read
NoCache == [kind |-> "cache", now |-> 0, set |-> FALSE, value |-> <<>>,
            expires |-> 0, got |-> NoRead]

\* r.set(key, base64.b64encode(pdf_bytes).decode('ascii'), ex=ttl)
CacheSet ==
    /\ fn = "cache"
    /\ ret' = [ret EXCEPT !.set = TRUE,
                          !.value = b64chars(arg.bytes),
                          !.expires = ret.now + arg.ttl]
    /\ UNCHANGED <<fn, arg>>

\* a tick of the clock
CacheTick ==
    /\ fn = "cache"
    /\ ret.now < MaxClock
    /\ ret' = [ret EXCEPT !.now = @ + 1]
    /\ UNCHANGED <<fn, arg>>

\* a reader that is served keys past their expiry
CacheLiveAlways(cache) == cache.set

\* whether r.get finds the key
CacheLive(cache) == cache.set /\ cache.now < cache.expires

\* cached = r.get(key); `if cached:` decode and serve it, else take the key
\* for not found
CacheGet ==
    /\ fn = "cache"
    /\ LET live == CacheLive(ret)
           cached == IF live THEN ret.value ELSE <<>>
       IN  ret' = [ret EXCEPT !.got =
                      IF cached # <<>>
                      THEN [kind |-> "hit", bytes |-> b64decode(cached),
                            live |-> live]
                      ELSE [kind |-> "miss", bytes |-> <<>>, live |-> live]]
    /\ UNCHANGED <<fn, arg>>

(***************************************************************************)
(* One call of process_task, from its first line to its return, over the   *)
(* outcomes of everything it calls: the response of each attempt, the      *)
(* sendDocument post, the sendMessage posts, the store.  fx collects what  *)
(* the call does: the results passed to save_result_to_redis, the          *)
(* documents and texts posted to Telegram, the log records of level        *)
(* warning and above, the external calls and the sleeps.                   *)
(***************************************************************************)
NoFx == [saves |-> <<>>, docs |-> <<>>, msgs |-> <<>>, logs |-> <<>>,
         calls |-> 0, sleeps |-> <<>>]

\* a pass that returns without handing its result to the store
FxSaveSkipped(fx, result, up) == fx

\* save_result_to_redis(task_id, result): a failing r.set is logged
FxSave(fx, result, up) ==
    [fx EXCEPT !.saves = Append(@, result),
               !.logs = IF up THEN @ ELSE Append(@, "save_failed")]

\* requests.post(TG_API_BASE + 'sendMessage', ...) inside try/except, under
\* `if TG_API_BASE and chat_id`; a raising post is logged
FxMessage(fx, item, text, post) ==
    IF ~CanNotify(item) THEN fx
    ELSE [fx EXCEPT !.msgs = Append(@, text),
                    !.logs = IF post = "ok" THEN @
                             ELSE Append(@, "message_failed")]

\* a sender that posts the document again when the first post fails
FxDocumentTwice(fx, item, bytes, sent) ==
    IF ~CanNotify(item) THEN fx
    ELSE [fx EXCEPT !.docs = IF sent = "ok" THEN Append(@, bytes)
                             ELSE Append(Append(@, bytes), bytes),
                    !.logs = IF sent = "ok" THEN @
                             ELSE Append(@, "send_failed")]

\* `if TG_API_BASE and chat_id: ok = send_telegram_document(...)`: one post
\* of sendDocument; a non-2xx status and an exception are logged, and the
\* function returns False
FxDocument(fx, item, bytes, sent) ==
    IF ~CanNotify(item) THEN fx
    ELSE [fx EXCEPT !.docs = Append(@, bytes),
                    !.logs = IF sent = "ok" THEN @
                             ELSE Append(@, "send_failed")]

Ended(end, fx) == [kind |-> "pass", end |-> end, fx |-> fx]

\* a delivery whose failure keeps the result out of the store
SendThenSaveGated(fx, item, bytes, sent, up) ==
    IF CanNotify(item) /\ sent # "ok" THEN FxDocument(fx, item, bytes, sent)
    ELSE FxSave(FxDocument(fx, item, bytes, sent),
                Result("ok", "", b64encode(bytes), RespNone), up)

\* `if pdf_bytes:` the document is sent, then the 'ok' result is saved with
\* the bytes in base64, whatever send_telegram_document returned
SendThenSave(fx, item, bytes, sent, up) ==
    FxSave(FxDocument(fx, item, bytes, sent),
           Result("ok", "", b64encode(bytes), RespNone), up)

\* a retry loop that posts the failure message after each failed attempt
RECURSIVE RetryLoopNoisy(_, _, _, _, _, _, _)
RetryLoopNoisy(item, resps, sent, up, post, attempt, fx) ==
    IF ~MayAttempt(attempt)
    THEN Ended("returned",
               FxSave(fx, Result("error", "exception", "", RespNone), up))
    ELSE
      LET resp == resps[attempt + 1]
          out == HandleResp(resp)
          called == [fx EXCEPT !.calls = @ + 1]
      IN  IF out.kind = "raise"
          THEN RetryLoopNoisy(item, resps, sent, up, post, attempt + 1,
                 FxMessage([called EXCEPT !.logs = Append(@, "attempt_error"),
                                          !.sleeps = Append(@, Backoff(attempt + 1))],
                           item, "final_error", post))
          ELSE Ended("returned", SendThenSave(called, item, out.bytes, sent, up))

\* `while attempt <= RETRIES:` with its body, and the code after the loop
RECURSIVE RetryLoop(_, _, _, _, _, _, _)
RetryLoop(item, resps, sent, up, post, attempt, fx) ==
    IF ~MayAttempt(attempt)
    THEN Ended("returned",
               FxMessage(FxSave(fx, Result("error", "exception", "", RespNone), up),
                         item, "final_error", post))
    ELSE
      LET resp == resps[attempt + 1]
          out == HandleResp(resp)
          called == [fx EXCEPT !.calls = @ + 1]
      IN  CASE out.kind = "raise" ->
                 RetryLoop(item, resps, sent, up, post, attempt + 1,
                           [called EXCEPT !.logs = Append(@, "attempt_error"),
                                          !.sleeps = Append(@, Backoff(attempt + 1))])
            [] out.kind = "nopdf" ->
                 Ended("returned",
                       FxMessage(FxSave(called, Result("error", out.err, "", resp), up),
                                 item, "format_error", post))
            [] out.kind = "ok" ->
                 Ended("returned", SendThenSave(called, item, out.bytes, sent, up))
            [] OTHER ->
                 Ended("returned",
                       FxSave(called, Result("error", out.err, "", RespNone), up))

\* process_task(item): `item.get(...)` raises for an item that is no dict,
\* and nothing in process_task catches it; else validation, moderation with
\* its notice, the payload, the retry loop
process_task(item, resps, sent, up, post) ==
    IF item.kind # "task" THEN Ended("raised", NoFx)
    ELSE RetryLoop(Payload(item), resps, sent, up, post, 0,
                   IF Moderated(item) THEN NoFx
                   ELSE FxMessage(NoFx, item, "moderation", post))

\* the items main() submits: objects with and without a chat id, with an
\* allowed and with a denied prompt, and valid JSON that is no object
PassItems ==
    { Item("task", "t1", 1, <<"i1">>, <<"x">>),
      Item("task", "t1", 0, <<"i1">>, <<"x">>),
      Item("task", "t2", 1, <<>>, <<"b", "o">>),
      Item("nonobject", "t1", 0, <<>>, <<>>) }

\* what one attempt can get back
PassResps ==
    { RespRaise,
      RespEmpty,
      RespInvalid,
      Resp("dict", "pdfA", "absent", "absent", "absent", <<>>),
      Resp("dict", "none", "absent", "absent", "absent", <<>>),
      Resp("dict", "absent", "pdfA", "absent", "absent", <<>>),
      Resp("dict", "absent", "absent", "pdfB", "absent", <<>>),
      Resp("dict", "absent", "absent", "bad", "absent", <<>>),
      Resp("dict", "absent", "absent", "blank", "absent", <<>>) }

PostOutcomesTg == {"ok", "status", "raise"}

PassArgs ==
    [item : PassItems,
     resps : [1..(RETRIES + 1) -> PassResps],
     sent : PostOutcomesTg,
     post : {"ok", "raise"},
     up : BOOLEAN]

\* the future of executor.submit(process_task, data) is dropped: an
\* exception that leaves process_task is stored in it and never read
ApplyPass ==
    /\ fn = "pass"
    /\ ret = NoRet
    /\ ret' = process_task(arg.item, arg.resps, arg.sent, arg.up, arg.post)
    /\ UNCHANGED <<fn, arg>>

(***************************************************************************)
(* One call of process_task whose attempts all meet the same external      *)
(* service: what call_hf_api hands back becomes the response the attempt   *)
(* works on.                                                               *)
(***************************************************************************)
\* the JSON bodies a candidate may answer with
JsonBodies ==
    { RespEmpty, RespNonDict,
      Resp("dict", "absent", "absent", "pdfB", "absent", <<>>) }

\* a client that treats a 2xx answer without JSON as a failed call
HttpResponseRaising(http, json) ==
    IF http.kind = "raise" \/ http.body = "notjson" THEN RespRaise ELSE json

\* what call_hf_api gives process_task: the exception it raised, the parsed
\* body, or {'error': 'invalid_response', 'text': resp.text}, a dict with
\* none of the fields the response handling knows
HttpResponse(http, json) ==
    IF http.kind = "raise" THEN RespRaise
    ELSE IF http.body = "notjson" THEN RespInvalid
    ELSE json

AttemptArgs ==
    [g : GradioOutcomes, api_url : BOOLEAN, space_ok : BOOLEAN,
     outcome : [CandidateUrls -> PostOutcomes], json : JsonBodies,
     chat_id : {0, 1}]

\* process_task on an item with no images and no prompt; every attempt gets
\* the same answers from the structured client and from the candidates
ApplyAttempt ==
    /\ fn = "attempt"
    /\ ret = NoRet
    /\ LET st == Strategies(arg.g)
           http == IF st[Len(st)] = "http"
                   THEN call_hf_api(arg.api_url, arg.space_ok, arg.outcome)
                   ELSE NoHttp
           resp == CallResult(arg.g, HttpResponse(http, arg.json))
           item == Item("task", "t1", arg.chat_id, <<>>, <<>>)
       IN  ret' = [kind |-> "attempt",
                   http |-> http,
                   resp |-> resp,
                   pass |-> process_task(item, [i \in 1..(RETRIES + 1) |-> resp],
                                         "ok", TRUE, "ok")]
    /\ UNCHANGED <<fn, arg>>

(***************************************************************************)
(* Delivery in the other two callers: render_task from the rendered PDF    *)
(* on, with notify_user_with_file, and my_bot.start from the cache lookup  *)
(* on.  docs lists the PDF posts, fallback the posts of the degraded       *)
(* form, logs the log records of level warning and above.                  *)
(***************************************************************************)
\* notify_user_with_file: one post of sendDocument when the task has an
\* assignee and TELEGRAM_TOKEN is set; a non-2xx status is logged, an
\* exception is caught and logged; nothing else is sent
notify_user_with_file(assignee, token, post) ==
    IF assignee = 0 \/ ~token THEN [docs |-> <<>>, logs |-> <<>>]
    ELSE [docs |-> <<"pdf">>,
          logs |-> IF post = "ok" THEN <<>> ELSE <<"send_failed">>]

\* render_task after page.pdf(): the artifact is cached under task_pdf_url
\* when S3 is configured and the upload gave a URL, else under task_pdf;
\* then notify_user_with_file.  A raising r.set leaves the try block
render_task_tail(s3, up, assignee, token, post) ==
    IF ~up
    THEN [kind |-> "render", cached |-> "none", fallback |-> <<>>,
          docs |-> <<>>, logs |-> <<"render_failed">>, response |-> "none"]
    ELSE LET n == notify_user_with_file(assignee, token, post) IN
         [kind |-> "render",
          cached |-> IF s3 = "url" THEN "task_pdf_url" ELSE "task_pdf",
          fallback |-> <<>>,
          docs |-> n.docs,
          logs |-> n.logs,
          response |-> "none"]

RenderArgs ==
    [s3 : {"off", "url", "nourl"}, up : BOOLEAN, assignee : {0, 1},
     token : BOOLEAN, post : PostOutcomesTg]

ApplyRenderTail ==
    /\ fn = "render"
    /\ ret = NoRet
    /\ ret' = render_task_tail(arg.s3, arg.up, arg.assignee, arg.token, arg.post)
    /\ UNCHANGED <<fn, arg>>

\* the except clause of my_bot.start: the failure is logged and the .md
\* file is posted instead, once; the reply text says which of the two went
MdFallback(cached, docs, logs, md_send) ==
    [kind |-> "start",
     cached |-> cached,
     fallback |-> <<"md">>,
     docs |-> docs,
     logs |-> Append(logs, "pdf_failed"),
     response |-> IF md_send = "ok" THEN "sent_md" ELSE "no_file"]

\* a bot that posts the PDF a second time before it falls back
StartDeliveryResend(hit, render, up, pdf_send, md_send) ==
    IF pdf_send = "ok"
    THEN [kind |-> "start", cached |-> "none", fallback |-> <<>>,
          docs |-> <<"pdf">>, logs |-> <<>>, response |-> "sent_pdf"]
    ELSE MdFallback("none", <<"pdf", "pdf">>, <<>>, md_send)

\* my_bot.start from `if cached:`: the cached PDF is decoded and posted; on
\* a miss the PDF is rendered, cached (a failing r.set is logged) and
\* posted; any exception of the block leads to the .md fallback
StartDelivery(hit, render, up, pdf_send, md_send) ==
    IF ~hit /\ render = "raise" THEN MdFallback("none", <<>>, <<>>, md_send)
    ELSE
      LET cached == IF ~hit /\ up THEN "task_pdf" ELSE "none"
          logs == IF ~hit /\ ~up THEN <<"cache_failed">> ELSE <<>>
      IN  IF pdf_send = "raise"
          THEN MdFallback(cached, <<"pdf">>, logs, md_send)
          ELSE [kind |-> "start", cached |-> cached, fallback |-> <<>>,
                docs |-> <<"pdf">>, logs |-> logs, response |-> "sent_pdf"]

StartArgs ==
    [hit : BOOLEAN, render : {"ok", "raise"}, up : BOOLEAN,
     pdf_send : {"ok", "raise"}, md_send : {"ok", "raise"}]

ApplyStartDelivery ==
    /\ fn = "start"
    /\ ret = NoRet
    /\ ret' = StartDelivery(arg.hit, arg.render, arg.up, arg.pdf_send, arg.md_send)
    /\ UNCHANGED <<fn, arg>>

(***************************************************************************)
(* The keys of the store as the bot, the monitor and the render worker     *)
(* write them.  An entry is absent, TTL-bound (written with ex=...) or     *)
(* persistent (written by r.set without ex, which also drops the TTL of a  *)
(* key that had one).  The clock counts the seconds of time.time().        *)
(***************************************************************************)
MaxNow == 1
MaxSubs == 2

BotUsers == {1, 2}

\* a task id given by the site
SiteId == [src |-> "site", user |-> 0, sec |-> 0]

\* f"local-{user_id}-{int(time.time())}"
LocalId(user_id, sec) == [src |-> "local", user |-> user_id, sec |-> sec]

BotIds == {SiteId} \cup {LocalId(u, s) : u \in BotUsers, s \in 0..MaxNow}

BotKinds == {"task", "task_assignee", "task_result", "task_pending",
             "task_ready", "task_pdf"}

Entry(val, exp) == [val |-> val, exp |-> exp]

NoEntry == Entry(0, "absent")

\* nothing stored, no message handled
NoBot == [kind |-> "bot", now |-> 0,
          store |-> [k \in BotKinds \X BotIds |-> NoEntry],
          subs |-> <<>>]

Has(store, kind, id) == store[<<kind, id>>].exp # "absent"

\* a second of time.time() passes
BotTick ==
    /\ fn = "bot"
    /\ ret.now < MaxNow
    /\ ret' = [ret EXCEPT !.now = @ + 1]
    /\ UNCHANGED <<fn, arg>>

\* my_bot.handle_task for a message of user_id: the task is stored under
\* task:<local id>, r.set without ex; subs lists the submissions and the id
\* each one got, the entry holds the number of the submission it is of
HandleTask(user_id) ==
    /\ fn = "bot"
    /\ Len(ret.subs) < MaxSubs
    /\ LET local_task_id == LocalId(user_id, ret.now)
           n == Len(ret.subs) + 1
       IN  ret' = [ret EXCEPT
                     !.store[<<"task", local_task_id>>] = Entry(n, "persist"),
                     !.subs = Append(@, [user |-> user_id, id |-> local_task_id])]
    /\ UNCHANGED <<fn, arg>>

\* monitor_backend.simulate_click: task:<id> and task_pending:<id> are
\* written with ex=REDIS_TTL
SimulateClick ==
    /\ fn = "bot"
    /\ ret' = [ret EXCEPT
                 !.store[<<"task", SiteId>>] = Entry(0, "ttl"),
                 !.store[<<"task_pending", SiteId>>] = Entry(1, "ttl")]
    /\ UNCHANGED <<fn, arg>>

\* my_bot.start with a task id, by user_id: when the task exists,
\* task_assignee:<id> is set to the user and task:<id> is written back with
\* assigned_user_id, both by r.set without ex
Start(user_id, task_id) ==
    /\ fn = "bot"
    /\ Has(ret.store, "task", task_id)
    /\ ret' = [ret EXCEPT
                 !.store[<<"task_assignee", task_id>>] = Entry(user_id, "persist"),
                 !.store[<<"task", task_id>>] = Entry(@.val, "persist")]
    /\ UNCHANGED <<fn, arg>>

\* callback 'solve:<id>': the result of the call is stored under
\* task_result:<id> by r.set without ex
Solve(task_id) ==
    /\ fn = "bot"
    /\ Has(ret.store, "task", task_id)
    /\ ret' = [ret EXCEPT !.store[<<"task_result", task_id>>] = Entry(1, "persist")]
    /\ UNCHANGED <<fn, arg>>

\* callback 'del:<id>': r.delete of task, task_assignee, task_result
Delete(task_id) ==
    /\ fn = "bot"
    /\ \/ Has(ret.store, "task", task_id)
       \/ Has(ret.store, "task_assignee", task_id)
       \/ Has(ret.store, "task_result", task_id)
    /\ ret' = [ret EXCEPT !.store[<<"task", task_id>>] = NoEntry,
                          !.store[<<"task_assignee", task_id>>] = NoEntry,
                          !.store[<<"task_result", task_id>>] = NoEntry]
    /\ UNCHANGED <<fn, arg>>

\* the render worker's pass over a task of the site: task_pdf and
\* task_ready written with ex=REDIS_TTL, task_pending deleted
RenderDone ==
    /\ fn = "bot"
    /\ Has(ret.store, "task", SiteId)
    /\ ret' = [ret EXCEPT !.store[<<"task_pdf", SiteId>>] = Entry(1, "ttl"),
                          !.store[<<"task_ready", SiteId>>] = Entry(1, "ttl"),
                          !.store[<<"task_pending", SiteId>>] = NoEntry]
    /\ UNCHANGED <<fn, arg>>

\* the TTL of a key runs out
BotExpire(k) ==
    /\ fn = "bot"
    /\ ret.store[k].exp = "ttl"
    /\ ret' = [ret EXCEPT !.store[k] = NoEntry]
    /\ UNCHANGED <<fn, arg>>

(***************************************************************************)
(* my_bot.render_html_to_pdf_bytes called by several handlers of one       *)
(* asyncio loop.  A step runs from one await to the next.  BROWSER is 0    *)
(* for None, else the number of the launch that made it; lock is the       *)
(* caller that holds BROWSER_LOCK, 0 when it is free.                      *)
(***************************************************************************)
MaxCallers == 3

Callers == 1..MaxCallers

NoBrowser ==
    [kind |-> "browser", BROWSER |-> 0, lock |-> 0, launches |-> 0,
     pc |-> [c \in Callers |-> "idle"],
     browser |-> [c \in Callers |-> 0],
     page |-> [c \in Callers |-> 0],
     closed |-> {}]

\* a guard that lets every caller in
LockFreeAlways(state) == TRUE

\* `async with BROWSER_LOCK`: entered only while no one holds the lock
LockFree(state) == state.lock = 0

\* inside the lock: `if BROWSER is None:` the caller starts the launch and
\* keeps the lock over the await; else it leaves the lock at once and takes
\* `browser = BROWSER`
Locked(state, c) ==
    IF state.BROWSER = 0
    THEN [state EXCEPT !.lock = c, !.pc[c] = "launching"]
    ELSE [state EXCEPT !.pc[c] = "new_page", !.browser[c] = state.BROWSER]

\* the call begins: BROWSER_LOCK is created if need be, and acquired if free
\* (no await on the way); else the caller waits for it
Call(c) ==
    /\ fn = "browser"
    /\ ret.pc[c] = "idle"
    /\ ret' = IF LockFree(ret) THEN Locked(ret, c)
              ELSE [ret EXCEPT !.pc[c] = "waiting"]
    /\ UNCHANGED <<fn, arg>>

\* a waiting caller gets the lock
Acquire(c) ==
    /\ fn = "browser"
    /\ ret.pc[c] = "waiting"
    /\ LockFree(ret)
    /\ ret' = Locked(ret, c)
    /\ UNCHANGED <<fn, arg>>

\* `BROWSER = await pyppeteer.launch(...)` returns or raises; either way the
\* `async with` block is left and the lock released
LaunchDone(c, ok) ==
    /\ fn = "browser"
    /\ ret.pc[c] = "launching"
    /\ ret' = IF ok
              THEN [ret EXCEPT !.BROWSER = ret.launches + 1,
                               !.launches = @ + 1,
                               !.lock = IF @ = c THEN 0 ELSE @,
                               !.browser[c] = ret.launches + 1,
                               !.pc[c] = "new_page"]
              ELSE [ret EXCEPT !.lock = IF @ = c THEN 0 ELSE @,
                               !.pc[c] = "raised"]
    /\ UNCHANGED <<fn, arg>>

\* `page = await browser.newPage()`; when it raises, the finally clause has
\* no page to close (the NameError is swallowed) and the call raises
NewPage(c, ok) ==
    /\ fn = "browser"
    /\ ret.pc[c] = "new_page"
    /\ ret' = IF ok THEN [ret EXCEPT !.page[c] = c, !.pc[c] = "render"]
              ELSE [ret EXCEPT !.pc[c] = "raised"]
    /\ UNCHANGED <<fn, arg>>

\* setContent (or the data-URL fallback), the MathJax call and page.pdf
RenderPdf(c, ok) ==
    /\ fn = "browser"
    /\ ret.pc[c] = "render"
    /\ ret' = [ret EXCEPT !.pc[c] = IF ok THEN "close_ok" ELSE "close_raise"]
    /\ UNCHANGED <<fn, arg>>

\* finally: `await page.close()` on the caller's own page; the browser is
\* left running
ClosePage(c) ==
    /\ fn = "browser"
    /\ ret.pc[c] \in {"close_ok", "close_raise"}
    /\ ret' = [ret EXCEPT !.closed = @ \cup {[page |-> ret.page[c], by |-> c]},
                          !.pc[c] = IF @ = "close_ok" THEN "returned" ELSE "raised"]
    /\ UNCHANGED <<fn, arg>>

(***************************************************************************)
(* The render pipeline with a record of its queue traffic: pushes lists    *)
(* the ids in the order of the LPUSHes, pops in the order BRPOP returned   *)
(* them, depth is the largest number of ids that waited at one time.       *)
(***************************************************************************)
NoTraffic == [kind |-> "queue", pushes |-> <<>>, pops |-> <<>>, depth |-> 0]

\* r.lpush('render_queue', task_id) of simulate_click
QueuePush ==
    /\ ClickPush
    /\ ret' = [ret EXCEPT !.pushes = Append(@, clickTask),
                          !.depth = IF Len(render_queue') > @
                                    THEN Len(render_queue') ELSE @]

\* r.brpop('render_queue', timeout=5) of worker_loop returns an id
QueuePop ==
    /\ RPop
    /\ ret' = [ret EXCEPT !.pops = Append(@, rTask')]

\* every other step of the request and of the worker
QueueIdle ==
    /\ \/ \E t \in TaskIds : ClickSetTask(t)
       \/ ClickSetPending
       \/ ClickError
       \/ RTimeout
       \/ RQueueError
       \/ RNapDone
       \/ RBackoffDone
       \/ \E up \in BOOLEAN : RClaim(up)
       \/ \E up \in BOOLEAN : RLoad(up)
       \/ \E ok \in BOOLEAN : RLaunch(ok)
       \/ \E ok \in BOOLEAN : RPage(ok)
       \/ \E how \in {"url", "b64", "raise"} : RCache(how)
       \/ RNotify
       \/ \E up \in BOOLEAN : RMarkReady(up)
       \/ \E up \in BOOLEAN : RUnpend(up)
       \/ RCancelled
    /\ UNCHANGED ret

(***************************************************************************)
(* The PDF cache of a task as its three writers and readers use it.  The   *)
(* content stored under task:<id> is numbered: 0 for no entry, else the    *)
(* number of the create request that wrote it.  A cached PDF records the   *)
(* content it was rendered from and the renderer that made it; sent is     *)
(* the PDF the bot posted last, with the content stored at that time.      *)
(***************************************************************************)
MaxVersions == 2

NoPdf == [of |-> 0, by |-> "none"]

NoSent == [id |-> "none", of |-> 0, by |-> "none", task |-> 0]

NoServe == [kind |-> "serve",
            task |-> [t \in TaskIds |-> 0],
            made |-> [t \in TaskIds |-> 0],
            pdf |-> [t \in TaskIds |-> NoPdf],
            sent |-> NoSent]

\* monitor_backend.create_task and simulate_click: r.set of task:<id> with
\* the content of the request, whatever is stored; no other key is touched
\* (simulate_click's push and marker aside)
CreateTask(t) ==
    /\ fn = "serve"
    /\ ret.made[t] < MaxVersions
    /\ ret' = [ret EXCEPT !.made[t] = @ + 1, !.task[t] = ret.made[t] + 1]
    /\ UNCHANGED <<fn, arg>>

\* callback 'del:<id>' of the bot: task, task_assignee and task_result are
\* deleted, task_pdf is not
DeleteTask(t) ==
    /\ fn = "serve"
    /\ ret.task[t] # 0
    /\ ret' = [ret EXCEPT !.task[t] = 0]
    /\ UNCHANGED <<fn, arg>>

\* render_service.render_task, S3 off or giving no URL: the PDF of
\* build_html(task_obj) is stored under task_pdf:<id>
RenderTask(t) ==
    /\ fn = "serve"
    /\ ret.task[t] # 0
    /\ ret' = [ret EXCEPT !.pdf[t] = [of |-> ret.task[t], by |-> "render_service"]]
    /\ UNCHANGED <<fn, arg>>

\* my_bot.start for a stored task: `cached = r.get(cache_key)`; a hit is
\* decoded and posted as it is; on a miss the bot renders its own document
\* of the task, stores it (a failing r.set is logged) and posts it
StartServe(t, up) ==
    /\ fn = "serve"
    /\ ret.task[t] # 0
    /\ LET cached == ret.pdf[t]
           own == [of |-> ret.task[t], by |-> "bot"]
           post == IF cached.by # "none" THEN cached ELSE own
       IN  ret' = [ret EXCEPT
                     !.pdf[t] = IF cached.by = "none" /\ up THEN own ELSE @,
                     !.sent = [id |-> t, of |-> post.of, by |-> post.by,
                               task |-> ret.task[t]]]
    /\ UNCHANGED <<fn, arg>>

\* the TTL of task_pdf:<id> runs out
ExpirePdf(t) ==
    /\ fn = "serve"
    /\ ret.pdf[t].by # "none"
    /\ ret' = [ret EXCEPT !.pdf[t] = NoPdf]
    /\ UNCHANGED <<fn, arg>>

(***************************************************************************)
(* Specifications.                                                         *)
(***************************************************************************)
InitStores ==
    /\ hf_queue = <<>>
    /\ pushed = 0
    /\ job = [j \in JobIds |-> NoJob]
    /\ work_queue = <<>>
    /\ mainPc = "brpop"
    /\ held = 0
    /\ hf_result = [t \in TaskIds |-> NoResult]
    /\ done = NoDone
    /\ crashes = 0
    /\ render_queue = <<>>
    /\ rstore = [k \in RKeys |-> "none"]
    /\ rPc = "brpop"
    /\ rTask = "t1"
    /\ rCancel = FALSE
    /\ rHist = [t \in TaskIds |-> "none"]
    /\ clicks = 0
    /\ clickPc = "idle"
    /\ clickTask = "t1"

InitVars ==
    /\ fn = "none"
    /\ arg = <<>>
    /\ ret = NoRet
    /\ InitStores

NextHF ==
    /\ svc = "hf"
    /\ \/ \E it \in Items : Enqueue(it)
       \/ BrpopItem
       \/ BrpopTimeout
       \/ PollAgain
       \/ BrpopError
       \/ BackoffDone
       \/ InvalidJson
       \/ Submit
       \/ KeyboardInterrupt
       \/ MainReturn
       \/ StartWork
       \/ \E j \in JobIds, resp \in Responses, up \in BOOLEAN :
             Attempt(j, resp, up)
       \/ \E j \in JobIds, up \in BOOLEAN : AfterRetries(j, up)
    /\ UNCHANGED svc
    /\ UNCHANGED renderVars
    /\ UNCHANGED fnVars

NextHFCrash ==
    /\ svc = "hf"
    /\ Crash
    /\ UNCHANGED svc
    /\ UNCHANGED renderVars
    /\ UNCHANGED fnVars

NextRender ==
    /\ svc = "render"
    /\ \/ \E t \in TaskIds : ClickSetTask(t)
       \/ ClickPush
       \/ ClickSetPending
       \/ ClickError
       \/ RPop
       \/ RTimeout
       \/ RQueueError
       \/ RNapDone
       \/ RBackoffDone
       \/ \E up \in BOOLEAN : RClaim(up)
       \/ \E up \in BOOLEAN : RLoad(up)
       \/ \E ok \in BOOLEAN : RLaunch(ok)
       \/ \E ok \in BOOLEAN : RPage(ok)
       \/ \E how \in {"url", "b64", "raise"} : RCache(how)
       \/ RNotify
       \/ \E up \in BOOLEAN : RMarkReady(up)
       \/ \E up \in BOOLEAN : RUnpend(up)
       \/ RCancelled
    /\ UNCHANGED svc
    /\ UNCHANGED hfVars
    /\ UNCHANGED fnVars

NextExpire ==
    /\ svc = "render"
    /\ \E k \in RKeys : RExpire(k)
    /\ UNCHANGED svc
    /\ UNCHANGED hfVars
    /\ UNCHANGED fnVars

InitHF == svc = "hf" /\ InitVars

InitRender == svc = "render" /\ InitVars

\* hf_worker alone
SpecHF == InitHF /\ [][NextHF]_vars

\* hf_worker, with the process being killed and restarted
SpecHFCrash == InitHF /\ [][NextHF \/ NextHFCrash]_vars

\* render_service with its producer, the keys' TTLs running out
SpecRender == InitRender /\ [][NextRender \/ NextExpire]_vars

InitPrelude ==
    /\ svc = "hf"
    /\ fn = "prelude"
    /\ arg \in PreludeArgs
    /\ ret = NoRet
    /\ InitStores

NextPrelude ==
    /\ ApplyPrelude
    /\ UNCHANGED svc
    /\ UNCHANGED hfVars
    /\ UNCHANGED renderVars

\* process_task from its entry to the payload of the external call
SpecPrelude == InitPrelude /\ [][NextPrelude]_vars

InitCall ==
    /\ svc = "hf"
    /\ \/ fn = "call" /\ arg \in CallArgs
       \/ fn = "attempt" /\ arg \in AttemptArgs
    /\ ret = NoRet
    /\ InitStores

NextCall ==
    /\ \/ ApplyCall
       \/ ApplyAttempt
    /\ UNCHANGED svc
    /\ UNCHANGED hfVars
    /\ UNCHANGED renderVars

\* the external call of one attempt of process_task, alone and within the
\* call of process_task
SpecCall == InitCall /\ [][NextCall]_vars

InitHandle ==
    /\ svc = "hf"
    /\ fn = "handle"
    /\ arg \in HandleArgs
    /\ ret = NoRet
    /\ InitStores

NextHandle ==
    /\ ApplyHandle
    /\ UNCHANGED svc
    /\ UNCHANGED hfVars
    /\ UNCHANGED renderVars

\* the response handling of one attempt of process_task
SpecHandle == InitHandle /\ [][NextHandle]_vars

InitCache ==
    /\ svc = "hf"
    /\ fn = "cache"
    /\ arg \in CacheArgs
    /\ ret = NoCache
    /\ InitStores

NextCache ==
    /\ \/ CacheSet
       \/ CacheTick
       \/ CacheGet
    /\ UNCHANGED svc
    /\ UNCHANGED hfVars
    /\ UNCHANGED renderVars

\* the cached artifact of one task
SpecCache == InitCache /\ [][NextCache]_vars

InitPass ==
    /\ svc = "hf"
    /\ \/ fn = "pass" /\ arg \in PassArgs
       \/ fn = "render" /\ arg \in RenderArgs
       \/ fn = "start" /\ arg \in StartArgs
    /\ ret = NoRet
    /\ InitStores

NextPass ==
    /\ \/ ApplyPass
       \/ ApplyRenderTail
       \/ ApplyStartDelivery
    /\ UNCHANGED svc
    /\ UNCHANGED hfVars
    /\ UNCHANGED renderVars

\* one processing pass of a task in each of its three callers: a call of
\* process_task, the tail of render_task, the delivery of my_bot.start
SpecPass == InitPass /\ [][NextPass]_vars

InitBot ==
    /\ svc = "render"
    /\ fn = "bot"
    /\ arg = <<>>
    /\ ret = NoBot
    /\ InitStores

NextBot ==
    /\ \/ BotTick
       \/ \E u \in BotUsers : HandleTask(u)
       \/ SimulateClick
       \/ \E u \in BotUsers, t \in BotIds : Start(u, t)
       \/ \E t \in BotIds : Solve(t)
       \/ \E t \in BotIds : Delete(t)
       \/ RenderDone
       \/ \E k \in BotKinds \X BotIds : BotExpire(k)
    /\ UNCHANGED svc
    /\ UNCHANGED hfVars
    /\ UNCHANGED renderVars

\* the store under the bot's handlers, the monitor and the render worker
SpecBot == InitBot /\ [][NextBot]_vars

InitBrowser ==
    /\ svc = "render"
    /\ fn = "browser"
    /\ arg = <<>>
    /\ ret = NoBrowser
    /\ InitStores

NextBrowser ==
    /\ \E c \in Callers :
          \/ Call(c)
          \/ Acquire(c)
          \/ \E ok \in BOOLEAN : LaunchDone(c, ok)
          \/ \E ok \in BOOLEAN : NewPage(c, ok)
          \/ \E ok \in BOOLEAN : RenderPdf(c, ok)
          \/ ClosePage(c)
    /\ UNCHANGED svc
    /\ UNCHANGED hfVars
    /\ UNCHANGED renderVars

\* concurrent calls of my_bot.render_html_to_pdf_bytes
SpecBrowser == InitBrowser /\ [][NextBrowser]_vars

InitQueue ==
    /\ svc = "render"
    /\ fn = "queue"
    /\ arg = <<>>
    /\ ret = NoTraffic
    /\ InitStores

NextQueue ==
    /\ \/ QueuePush
       \/ QueuePop
       \/ QueueIdle
    /\ UNCHANGED <<svc, fn, arg>>
    /\ UNCHANGED hfVars

\* render_service and simulate_click, the queue traffic recorded
SpecQueue == InitQueue /\ [][NextQueue]_vars

InitServe ==
    /\ svc = "render"
    /\ fn = "serve"
    /\ arg = <<>>
    /\ ret = NoServe
    /\ InitStores

NextServe ==
    /\ \E t \in TaskIds :
          \/ CreateTask(t)
          \/ DeleteTask(t)
          \/ RenderTask(t)
          \/ \E up \in BOOLEAN : StartServe(t, up)
          \/ ExpirePdf(t)
    /\ UNCHANGED svc
    /\ UNCHANGED hfVars
    /\ UNCHANGED renderVars

\* the PDF cache under the monitor, the render worker and the bot
SpecServe == InitServe /\ [][NextServe]_vars

\* either service, within the TTL of its keys
Init == svc \in {"hf", "render"} /\ InitVars

Next == NextHF \/ NextRender

Spec == Init /\ [][Next]_vars

(***************************************************************************)
(* Properties of hf_worker.                                                *)
(***************************************************************************)
Count(seq, x) == Cardinality({i \in DOMAIN seq : seq[i] = x})

\* C1: a process_task call in which every attempt failed has made exactly
\* RETRIES + 1 attempts and has saved exactly one result, of status 'error',
\* and no 'ok' result; a call still running has failed in every attempt made
\* so far, at most RETRIES + 1 of them, and has saved nothing
C1_AllAttemptsFail ==
    /\ \A j \in JobIds :
          job[j].st = "run" =>
             /\ job[j].tries = job[j].attempt
             /\ job[j].tries <= RETRIES + 1
    /\ (done.j # 0 /\ done.tries = done.attempt) =>
          /\ done.tries = RETRIES + 1
          /\ Len(done.saves) = 1
          /\ done.saves[1].status = "error"
          /\ done.saves[1].pdf = ""
          /\ Count(done.msgs, "document") = 0

\* a call has returned after RETRIES + 1 failed attempts
C1_Witness ==
    /\ done.j # 0
    /\ done.attempt = RETRIES + 1
    /\ done.tries = RETRIES + 1
    /\ done.saves = << Result("error", "exception", "", RespNone) >>
    /\ hf_result[done.item.task_id] = done.saves[1]

\* C2: an attempt whose response is of no recognized shape is the last of
\* its call: the call never goes on to another attempt, it saves one error
\* result 'no_pdf_in_hf_response' carrying that response, posts one
\* 'unexpected format' message to the task's chat (the task has one), and no
\* final-error message
C2_UnrecognizedStops ==
    /\ \A j \in JobIds : job[j].st = "run" => ~job[j].unrec
    /\ done.unrec =>
          /\ done.tries = done.attempt + 1
          /\ Len(done.saves) = 1
          /\ done.saves[1].status = "error"
          /\ done.saves[1].error = "no_pdf_in_hf_response"
          /\ Unrecognized(done.saves[1].response)
          /\ Count(done.msgs, "format_error") =
                IF CanNotify(done.item) THEN 1 ELSE 0
          /\ Count(done.msgs, "final_error") = 0

\* an unrecognized response arrived after a failed attempt, with retries left,
\* for a task that has a chat
C2_Witness ==
    /\ done.unrec
    /\ done.attempt = 1
    /\ done.attempt < RETRIES
    /\ CanNotify(done.item)
    /\ Count(done.msgs, "format_error") = 1
    /\ hf_result[done.item.task_id].response = done.saves[1].response

\* C5: at no time are more than WORKER_CONCURRENCY calls of process_task
\* running
C5_BoundedWorkers == Cardinality(Active) <= WORKER_CONCURRENCY

\* every worker is busy while a submitted task waits
C5_Witness ==
    /\ Cardinality(Active) = WORKER_CONCURRENCY
    /\ work_queue # <<>>

\* the items popped from hf_queue whose processing has not finished
PoppedUnfinished == {j \in JobIds : job[j].st \in {"held", "pool", "run"}}

\* C6: the number of items popped from hf_queue and not yet finished never
\* exceeds WORKER_CONCURRENCY
C6_IntakeBounded == Cardinality(PoppedUnfinished) <= WORKER_CONCURRENCY

\* main has returned: nothing submitted is left waiting or running
Drained ==
    mainPc = "returned" =>
       /\ work_queue = <<>>
       /\ \A j \in JobIds : job[j].st \notin {"pool", "run"}

\* a step after the interrupt: no pop, and submitted tasks only move on
DrainStep ==
    mainPc \in {"draining", "returned"} =>
       /\ Len(hf_queue') >= Len(hf_queue)
       /\ held' = 0
       /\ \A j \in JobIds :
             /\ job[j].st = "pool" => job'[j].st \in {"pool", "run"}
             /\ job[j].st = "run" => job'[j].st \in {"run", "done"}

\* C7: once KeyboardInterrupt has reached main, no item is popped from
\* hf_queue any more and no running call is aborted, and main has returned
\* only when every task submitted to the pool has run process_task to its end
C7_GracefulDrain == []Drained /\ [][DrainStep]_vars

\* the interrupt has come while a call is running and another task waits in
\* the pool
C7_Witness ==
    /\ mainPc = "draining"
    /\ Active # {}
    /\ work_queue # <<>>

\* C9: no item a worker has popped from hf_queue is lost: while the worker
\* is up, also after a restart, every pushed item is in the queue, with the
\* worker (popped, in the pool, running), handled or dropped as invalid JSON
C9_AtLeastOnce ==
    mainPc \in InLoop =>
       \A j \in JobIds :
          job[j].st \in {"none", "queued", "held", "pool", "run", "done", "dropped"}

(***************************************************************************)
(* Properties of process_task before the external call.                    *)
(***************************************************************************)
\* C11: an images list longer than MAX_IMAGES reaches the payload as its
\* first MAX_IMAGES elements in their order; a list of at most MAX_IMAGES
\* elements reaches it unchanged
C11_ImagesCapped ==
    ret.kind = "prelude" =>
       LET im == arg.item.images
           out == ret.payload.images
       IN  IF Len(im) > MAX_IMAGES
           THEN /\ Len(out) = MAX_IMAGES
                /\ \A i \in 1..MAX_IMAGES : out[i] = im[i]
           ELSE out = im

\* a list one too long, whose first and last elements differ, was capped
C11_Witness ==
    /\ ret.kind = "prelude"
    /\ Len(arg.item.images) = MAX_IMAGES + 1
    /\ arg.item.images[1] # arg.item.images[MAX_IMAGES + 1]
    /\ Len(ret.payload.images) = MAX_IMAGES

\* the first MAX_PROMPT_LEN characters of a text
Head_N(text) == [i \in 1..MAX_PROMPT_LEN |-> text[i]]

\* the text holds a deny-listed word, in any letter case
HoldsDenied(text) ==
    \E w \in BLACKLIST : \E i \in 1..Len(text) :
       /\ i + Len(w) - 1 <= Len(text)
       /\ \A k \in 1..Len(w) : LowerChar(text[i + k - 1]) = w[k]

\* C12: a prompt longer than MAX_PROMPT_LEN is cut to its first
\* MAX_PROMPT_LEN characters, and moderation decides on the cut prompt: the
\* prompt is rejected exactly when its first MAX_PROMPT_LEN characters hold
\* a deny-listed word, and an allowed prompt reaches the payload cut
C12_CutBeforeModeration ==
    (ret.kind = "prelude" /\ Len(arg.item.prompt) > MAX_PROMPT_LEN) =>
       LET cut == Head_N(arg.item.prompt) IN
       /\ (ret.notice # "none") <=> HoldsDenied(cut)
       /\ ret.payload.prompt = IF HoldsDenied(cut) THEN <<>> ELSE cut

\* the deny-listed word of a prompt too long lies across the cut: the
\* prompt as submitted holds it, the cut prompt does not and is passed on
C12_Witness ==
    /\ ret.kind = "prelude"
    /\ Len(arg.item.prompt) > MAX_PROMPT_LEN
    /\ HoldsDenied(arg.item.prompt)
    /\ ret.notice = "none"
    /\ Len(ret.payload.prompt) = MAX_PROMPT_LEN

\* what is left of a submitted prompt after the cap
Capped(text) == IF Len(text) > MAX_PROMPT_LEN THEN Head_N(text) ELSE text

\* C13 (as stated): every submitted prompt that holds a deny-listed word
\* reaches the payload empty, and a moderation notice is issued
C13_AsStated ==
    (ret.kind = "prelude" /\ HoldsDenied(arg.item.prompt)) =>
       /\ ret.payload.prompt = <<>>
       /\ ret.notice # "none"

\* C13: every submitted prompt whose first MAX_PROMPT_LEN characters hold a
\* deny-listed word, in any letter case, reaches the payload empty, and the
\* moderation notice is posted to the item's chat when the item has one (the
\* post may fail); any other prompt reaches the payload capped, with no notice
C13_DeniedPromptDropped ==
    ret.kind = "prelude" =>
       IF HoldsDenied(Capped(arg.item.prompt))
       THEN /\ ret.payload.prompt = <<>>
            /\ CanNotify(arg.item) => ret.notice \in {"posted", "failed"}
            /\ ~CanNotify(arg.item) => ret.notice = "skipped"
       ELSE /\ ret.payload.prompt = Capped(arg.item.prompt)
            /\ ret.notice = "none"

\* a prompt with the deny-listed word in upper case was dropped and the
\* notice posted
C13_Witness ==
    /\ ret.kind = "prelude"
    /\ arg.item.prompt = <<"x", "B", "o">>
    /\ ret.payload.prompt = <<>>
    /\ ret.notice = "posted"

\* C14: a prompt rejected by moderation never ends process_task: whatever
\* becomes of the notice (posted, failed, not sent for want of a chat id),
\* the external call follows, with an empty prompt
C14_RejectionNotFatal ==
    (ret.kind = "prelude" /\ ~Moderated(arg.item)) =>
       /\ ret.next = "call"
       /\ ret.payload.prompt = <<>>
       /\ ret.payload.images = Truncate(arg.item.images, MAX_IMAGES)

\* the post of the notice raised, and the call follows
C14_Witness ==
    /\ ret.kind = "prelude"
    /\ ret.notice = "failed"
    /\ ret.next = "call"
    /\ ret.payload.prompt = <<>>

(***************************************************************************)
(* Properties of the external call.                                        *)
(***************************************************************************)
\* the structured client came back with an artifact
GradioArtifact(g) == g.shape = "dict" /\ g.fb \notin {"absent", "none", "blank"}

InSeq(x, seq) == \E i \in 1..Len(seq) : seq[i] = x

\* C15: in an attempt the structured call is made first; the HTTP strategy
\* is called in the same attempt whenever the structured call raised or
\* returned without an artifact, and never when it produced one
C15_FallbackOnNoArtifact ==
    ret.kind = "call" =>
       /\ ret.strategies[1] = "gradio"
       /\ InSeq("http", ret.strategies) <=> ~GradioArtifact(arg.g)

Failed(o) == o \in {"http_error", "exception"}

\* C16: call_hf_api posts to its candidates in the order HF_API_URL, embed
\* URL, direct URL; each candidate before the last one posted to has failed;
\* it returns the body of the first candidate that answers and posts to none
\* after it; it raises only when every candidate has failed, and then the
\* error of the last candidate
C16_CandidatesInOrder ==
    (ret.kind = "call" /\ ret.http.kind # "none") =>
       LET h == ret.http
           urls == urls_to_try(arg.api_url, arg.space_ok)
           n == Len(h.called)
       IN  /\ n <= Len(urls)
           /\ \A i \in 1..n : h.called[i] = urls[i]
           /\ \A i \in 1..(n - 1) : Failed(arg.outcome[urls[i]])
           /\ h.kind = "return" =>
                 /\ n >= 1
                 /\ ~Failed(arg.outcome[urls[n]])
                 /\ h.from = urls[n]
                 /\ h.body = arg.outcome[urls[n]]
           /\ h.kind = "raise" =>
                 /\ n = Len(urls)
                 /\ \A i \in 1..n : Failed(arg.outcome[urls[i]])
                 /\ n >= 1 => h.err = [url |-> urls[n], kind |-> arg.outcome[urls[n]]]
                 /\ n = 0 => h.err = NoExc

\* the first two of three candidates failed, in two ways, and the third
\* answered
C16_Witness ==
    /\ ret.kind = "call"
    /\ ret.http.kind = "return"
    /\ ret.http.called = <<"HF_API_URL", "embed_url", "direct_url">>
    /\ arg.outcome["HF_API_URL"] = "http_error"
    /\ arg.outcome["embed_url"] = "exception"
    /\ ret.http.from = "direct_url"

\* C39: when the first candidate of call_hf_api that answers 2xx has a body
\* that is no JSON, no candidate after it is posted to, process_task gets
\* the 'invalid_response' dict, in which it finds no artifact, and ends
\* after this one call with the result no_pdf_in_hf_response and the
\* message about the format
C39_NotJsonEndsPass ==
    (ret.kind = "attempt" /\ ret.http.kind = "return" /\ ret.http.body = "notjson") =>
       LET urls == urls_to_try(arg.api_url, arg.space_ok)
           n == Len(ret.http.called)
           fx == ret.pass.fx
       IN  /\ n \in 1..Len(urls)
           /\ ret.http.called = SubSeq(urls, 1, n)
           /\ ret.http.from = urls[n]
           /\ arg.outcome[urls[n]] = "notjson"
           /\ \A i \in 1..(n - 1) : Failed(arg.outcome[urls[i]])
           /\ ret.resp = RespInvalid
           /\ Unrecognized(ret.resp)
           /\ ret.pass.end = "returned"
           /\ fx.calls = 1
           /\ fx.sleeps = <<>>
           /\ fx.saves = << Result("error", "no_pdf_in_hf_response", "", RespInvalid) >>
           /\ fx.msgs = IF arg.chat_id # 0 THEN <<"format_error">> ELSE <<>>

\* the second candidate answers without JSON, the third would have had the
\* PDF and is not asked
C39_Witness ==
    /\ ret.kind = "attempt"
    /\ arg.outcome["HF_API_URL"] = "http_error"
    /\ arg.outcome["embed_url"] = "notjson"
    /\ arg.outcome["direct_url"] = "json"
    /\ arg.json.b64 = "pdfB"
    /\ ret.http.called = <<"HF_API_URL", "embed_url">>
    /\ ret.resp = RespInvalid
    /\ ret.pass.fx.calls = 1
    /\ ret.pass.fx.msgs = <<"format_error">>

(***************************************************************************)
(* Properties of the response handling.                                    *)
(***************************************************************************)
\* the field the outcome's bytes came from
UsedField(out) ==
    IF out.kind # "ok" THEN "none"
    ELSE IF out.bytes = "pdfF" THEN "file_bytes"
    ELSE IF out.bytes = "pdfU" THEN "pdf_url"
    ELSE IF out.bytes = "pdfB" THEN "pdf_base64"
    ELSE "data"

\* the highest-priority artifact shape present in the response: the pdf_url
\* field, the pdf_base64 field, or a 'data' list with a usable element
FirstShape(resp) ==
    IF resp.url # "absent" THEN "pdf_url"
    ELSE IF resp.b64 # "absent" THEN "pdf_base64"
    ELSE IF resp.dk = "list" /\ ScanData(resp.data) # "" THEN "data"
    ELSE "none"

\* an attempt that uses a field of the response uses the first shape present,
\* and the first shape present is used unless reading it fails
UsesFirstShape(resp, out) ==
    /\ UsedField(out) # "none" => UsedField(out) = FirstShape(resp)
    /\ (resp.url = "pdfU" \/ (resp.url = "absent" /\ resp.b64 = "pdfB")) =>
          UsedField(out) = FirstShape(resp)

\* as stated: every response that holds one of pdf_url, pdf_base64 and a
\* 'data' list is served from the first of them present
C17_AsStated ==
    (ret.kind = "handle" /\ FirstShape(arg) # "none") =>
       UsesFirstShape(arg, ret.out)

HasFileBytes(resp) == resp.fb \notin {"absent", "none"}

\* C17: a response with a non-empty file_bytes field is served from that
\* field; any other response is served from the first shape present in the
\* order pdf_url, pdf_base64, 'data' list, a lower one being used only when
\* no higher field is present
C17_ShapePriority ==
    ret.kind = "handle" =>
       /\ HasFileBytes(arg) => UsedField(ret.out) = "file_bytes"
       /\ ~HasFileBytes(arg) => UsesFirstShape(arg, ret.out)

\* all three shapes present, each usable: the URL field is used
C17_Witness ==
    /\ ret.kind = "handle"
    /\ ~HasFileBytes(arg)
    /\ arg.url = "pdfU"
    /\ arg.b64 = "pdfB"
    /\ arg.data = << El(TRUE, "pdf", "pdfD", "absent") >>
    /\ ret.out = Out("ok", "pdfU", "")

\* C18: an artifact taken from the 'data' list comes from an element whose
\* type is 'pdf'
C18_TypedElementsOnly ==
    (ret.kind = "handle" /\ UsedField(ret.out) = "data") =>
       \E i \in 1..Len(arg.data) :
          /\ arg.data[i].dict
          /\ arg.data[i].type = "pdf"
          /\ ret.out.bytes \in {arg.data[i].data, arg.data[i].url}

(***************************************************************************)
(* Properties of the artifact cache.                                       *)
(***************************************************************************)
\* C19: a read of the key before its expiry decodes to the bytes that were
\* stored; a read at or after the expiry, with no rewrite since, finds
\* nothing and is taken for not found
C19_RoundTrip ==
    ret.kind = "cache" =>
       /\ ret.got.kind = "hit" => (ret.got.live /\ ret.got.bytes = arg.bytes)
       /\ ret.got.kind = "miss" => ~ret.got.live
       /\ (ret.set /\ ret.now >= ret.expires) => ~CacheLive(ret)
       /\ (ret.set /\ ret.now < ret.expires) =>
             /\ CacheLive(ret)
             /\ b64decode(ret.value) = arg.bytes

\* an artifact whose encoding is padded was written, time passed, and a read
\* before the expiry returned it
C19_Witness ==
    /\ ret.kind = "cache"
    /\ Len(arg.bytes) = 4
    /\ ret.now >= 1
    /\ ret.now < ret.expires
    /\ ret.got.kind = "hit"
    /\ ret.got.bytes = arg.bytes

(***************************************************************************)
(* Properties of one processing pass.                                      *)
(***************************************************************************)
\* the outcome of the first attempt of a call that does not raise, or of
\* the last attempt
RECURSIVE FirstAnswer(_, _)
FirstAnswer(resps, i) ==
    IF HandleResp(resps[i]).kind # "raise" \/ i = RETRIES + 1
    THEN HandleResp(resps[i])
    ELSE FirstAnswer(resps, i + 1)

\* the call has found the bytes of a PDF in some attempt
Rendered == arg.item.kind = "task" /\ FirstAnswer(arg.resps, 1).kind = "ok"

\* C21: a call of process_task that has found the PDF passes one 'ok' result
\* with those bytes to the store whether the document was sent, the send
\* failed or there was nobody to send to; render_task has cached the
\* artifact whenever it reaches notify_user_with_file, whatever the post does
C21_StoredWhateverDelivery ==
    /\ (ret.kind = "pass" /\ Rendered) =>
          /\ Len(ret.fx.saves) = 1
          /\ ret.fx.saves[1].status = "ok"
          /\ ret.fx.saves[1].pdf = b64encode(FirstAnswer(arg.resps, 1).bytes)
    /\ (ret.kind = "render" /\ arg.up) => ret.cached \in {"task_pdf", "task_pdf_url"}
    /\ (ret.kind = "render" /\ ret.docs # <<>>) => ret.cached # "none"

\* the document was posted and the post raised; the result is stored
C21_Witness ==
    /\ ret.kind = "pass"
    /\ Rendered
    /\ arg.sent = "raise"
    /\ ret.fx.docs = <<"pdfB">>
    /\ ret.fx.logs = <<"send_failed">>
    /\ ret.fx.saves = << Result("ok", "", "cGRmQg==", RespNone) >>

\* the post of the PDF failed
SendFailed ==
    \/ ret.kind = "pass" /\ ret.fx.docs # <<>> /\ arg.sent # "ok"
    \/ ret.kind = "render" /\ ret.docs # <<>> /\ arg.post # "ok"
    \/ ret.kind = "start" /\ ret.docs # <<>> /\ arg.pdf_send # "ok"

PdfPosts == IF ret.kind = "pass" THEN ret.fx.docs ELSE ret.docs

FallbackPosts == IF ret.kind = "pass" THEN <<>> ELSE ret.fallback

ValidBase64(resp) ==
    /\ resp.shape = "dict"
    /\ resp.fb \in {"absent", "none"}
    /\ resp.url = "absent"
    /\ resp.b64 \notin {"absent", "bad", "blank"}

\* the response that decided the call: that of the first attempt that did
\* not raise
RECURSIVE FirstResp(_, _)
FirstResp(resps, i) ==
    IF HandleResp(resps[i]).kind # "raise" \/ i = RETRIES + 1
    THEN resps[i]
    ELSE FirstResp(resps, i + 1)

\* C23: a call whose response carries a valid base64 artifact field passes
\* one result to the store, of status 'ok', whose pdf field is the base64 of
\* the bytes decoded from the response and decodes to them again; with a
\* token and a chat id send_telegram_document is called exactly once, with
\* those bytes, and without them not at all
C23_Base64Artifact ==
    (ret.kind = "pass" /\ arg.item.kind = "task"
       /\ ValidBase64(FirstResp(arg.resps, 1))) =>
       LET bytes == BytesOf(FirstResp(arg.resps, 1).b64)
           text == b64chars(Octets(bytes))
       IN  /\ ret.end = "returned"
           /\ ret.fx.saves = << Result("ok", "", Join(text), RespNone) >>
           /\ b64decode(text) = Octets(bytes)
           /\ Octets(bytes) # <<>>
           /\ ret.fx.docs = IF CanNotify(arg.item) THEN <<bytes>> ELSE <<>>

\* the first attempt fails, the second answers with a base64 artifact of four
\* bytes, which is sent once and stored
C23_Witness ==
    /\ ret.kind = "pass"
    /\ CanNotify(arg.item)
    /\ arg.resps[1] = RespRaise
    /\ ValidBase64(arg.resps[2])
    /\ ret.fx.calls = 2
    /\ ret.fx.docs = <<"pdfB">>
    /\ ret.fx.saves = << Result("ok", "", "cGRmQg==", RespNone) >>
    /\ b64decode(<<"c", "G", "R", "m", "Q", "g", "=", "=">>) = <<112, 100, 102, 66>>

\* every attempt of the call fails: the call raises, or answers with
\* something whose download or decoding raises
AllAttemptsFail ==
    /\ arg.item.kind = "task"
    /\ \A i \in 1..(RETRIES + 1) : HandleResp(arg.resps[i]).kind = "raise"

\* C24: when all RETRIES + 1 attempts of a call fail, one result is passed
\* to the store, of status 'error'; the failure message is posted once, after
\* the last attempt, to an item with a chat id (and to no one otherwise); no
\* other failure message and no document is posted
C24_OneFailureNotice ==
    (ret.kind = "pass" /\ AllAttemptsFail) =>
       /\ ret.end = "returned"
       /\ ret.fx.calls = RETRIES + 1
       /\ Len(ret.fx.sleeps) = RETRIES + 1
       /\ ret.fx.saves = << Result("error", "exception", "", RespNone) >>
       /\ ret.fx.docs = <<>>
       /\ Count(ret.fx.msgs, "format_error") = 0
       /\ Count(ret.fx.msgs, "final_error") = IF CanNotify(arg.item) THEN 1 ELSE 0
       /\ CanNotify(arg.item) => ret.fx.msgs[Len(ret.fx.msgs)] = "final_error"

\* three failed attempts of different kinds, then the one message
C24_Witness ==
    /\ ret.kind = "pass"
    /\ AllAttemptsFail
    /\ arg.resps[1] = RespRaise
    /\ arg.resps[2].b64 = "bad"
    /\ Moderated(arg.item)
    /\ ret.fx.msgs = <<"final_error">>
    /\ ret.fx.logs = <<"attempt_error", "attempt_error", "attempt_error">>
    /\ ret.fx.sleeps = <<3, 5, 7>>

\* C25: a call of process_task that has ended has passed exactly one result
\* to save_result_to_redis
C25_OneResultPerPass ==
    ret.kind = "pass" => Len(ret.fx.saves) = 1

\* C29: a call of process_task that ended in an error has left a log
\* record: an exception that left the call, a failed attempt, a result of
\* status 'error' of the kind no_pdf_bytes
C29_ErrorsLogged ==
    ret.kind = "pass" =>
       /\ ret.end = "raised" => ret.fx.logs # <<>>
       /\ (\E i \in 1..Len(ret.fx.saves) : ret.fx.saves[i].error = "no_pdf_bytes")
             => ret.fx.logs # <<>>

\* the i-th sleep of a pass follows the failed attempt logged with ordinal
\* i - 1 and lasts 1 + (i - 1) * 2 seconds
SleepsAsStated ==
    \A i \in 1..Len(ret.fx.sleeps) : ret.fx.sleeps[i] = 1 + (i - 1) * 2

\* every sleep is followed by another attempt: fewer sleeps than calls
SleepsBeforeAttempts ==
    ret.fx.calls > 0 => Len(ret.fx.sleeps) < ret.fx.calls

\* C33: the failed attempt logged with ordinal n (the first one with 0) is
\* followed by a sleep of 1 + n * 2 seconds and then by another attempt;
\* there is no sleep after the last attempt of the budget
C33_BackoffSchedule ==
    ret.kind = "pass" => (SleepsAsStated /\ SleepsBeforeAttempts)

\* the attempt failed in transport: the external call raised, or the
\* download of the artifact URL did
TransportFailure(resp) ==
    \/ resp.shape = "raise"
    \/ /\ resp.shape = "dict"
       /\ resp.fb \in {"absent", "none", "blank"}
       /\ resp.url = "bad"

\* the call answered and the answer cannot be turned into an artifact: an
\* empty body, a pdf_base64 that does not decode, an unrecognized shape
NoArtifact(resp) ==
    \/ resp.shape = "empty"
    \/ /\ resp.shape = "dict"
       /\ resp.fb \in {"absent", "none", "blank"}
       /\ resp.url = "absent"
       /\ resp.b64 = "bad"
    \/ Unrecognized(resp)

\* C34: in a pass over a task item an attempt that failed in transport is
\* followed by another attempt while the budget lasts, and an attempt whose
\* answer cannot be turned into an artifact is the last one
C34_OnlyTransportRetried ==
    (ret.kind = "pass" /\ arg.item.kind = "task") =>
       \A i \in 1..ret.fx.calls :
          /\ (TransportFailure(arg.resps[i]) /\ i <= RETRIES) => ret.fx.calls > i
          /\ NoArtifact(arg.resps[i]) => ret.fx.calls = i

\* C35: a call of process_task on a task item returns, after at most
\* RETRIES + 1 external calls, and has by then passed one result, 'ok' or
\* 'error', to save_result_to_redis, which has written it when the store
\* took the write
C35_PassTerminates ==
    (ret.kind = "pass" /\ arg.item.kind = "task") =>
       /\ ret.end = "returned"
       /\ ret.fx.calls \in 1..(RETRIES + 1)
       /\ Len(ret.fx.saves) = 1
       /\ ret.fx.saves[1].status \in {"ok", "error"}
       /\ ret.fx.saves[1].status = "ok" <=> FirstAnswer(arg.resps, 1).kind = "ok"
       /\ arg.up => Count(ret.fx.logs, "save_failed") = 0

\* the whole budget is used: two attempts fail, the last one brings the PDF
C35_Witness ==
    /\ ret.kind = "pass"
    /\ arg.item.kind = "task"
    /\ arg.up
    /\ ret.end = "returned"
    /\ ret.fx.calls = RETRIES + 1
    /\ ret.fx.sleeps = <<3, 5>>
    /\ Len(ret.fx.saves) = 1
    /\ ret.fx.saves[1].status = "ok"

(***************************************************************************)
(* Properties of the store's keys.                                         *)
(***************************************************************************)
\* C26: no two submissions handled by handle_task have got the same id
C26_DistinctIds ==
    ret.kind = "bot" =>
       \A i, j \in 1..Len(ret.subs) : i # j => ret.subs[i].id # ret.subs[j].id

\* a step never changes a task's assignee from one user to another
AssigneeKept ==
    ret.kind = "bot" =>
       \A t \in BotIds :
          (Has(ret.store, "task_assignee", t) /\ Has(ret'.store, "task_assignee", t)) =>
             ret'.store[<<"task_assignee", t>>].val = ret.store[<<"task_assignee", t>>].val

\* C27: once task_assignee:<id> is written, no operation changes it to
\* another user
C27_AssigneeSetOnce == [][AssigneeKept]_vars

\* C28: every key other than task_assignee that exists is TTL-bound
C28_KeysTtlBound ==
    ret.kind = "bot" =>
       \A k \in BotKinds \X BotIds :
          k[1] # "task_assignee" => ret.store[k].exp # "persist"

\* a step leaves every task:<id> entry that exists before and after it as
\* it was, content and expiry
TaskKept ==
    fn = "bot" =>
      \A t \in BotIds :
         (Has(ret.store, "task", t) /\ Has(ret'.store, "task", t))
            => ret'.store[<<"task", t>>] = ret.store[<<"task", t>>]

\* C31: a stored task is never modified after its creation: no component
\* rewrites task:<id>, content or expiry, once the producer has created it
C31_TaskImmutable == [][TaskKept]_vars

(***************************************************************************)
(* Properties of the bot's shared browser.                                 *)
(***************************************************************************)
\* C30: whatever the interleaving of the calls, at most one launch has
\* succeeded and at most one is under way, under the lock; the lock is held
\* only over a launch, so the renders run side by side; every caller past
\* the lock works on the one shared browser; a page is closed only by the
\* caller that opened it, and nothing closes the browser
C30_SharedBrowser ==
    ret.kind = "browser" =>
       /\ ret.launches <= 1
       /\ Cardinality({c \in Callers : ret.pc[c] = "launching"}) <= 1
       /\ \A c \in Callers : ret.pc[c] = "launching" => (ret.lock = c /\ ret.BROWSER = 0)
       /\ ret.lock # 0 => ret.pc[ret.lock] = "launching"
       /\ \A c \in Callers :
             ret.pc[c] \in {"new_page", "render", "close_ok", "close_raise", "returned"} =>
                (ret.BROWSER = 1 /\ ret.browser[c] = ret.BROWSER)
       /\ \A x \in ret.closed : x.page = x.by
       /\ ret.launches = 1 => ret.BROWSER = 1

\* a first launch failed, the next caller launched the browser, a third
\* reuses it, and two renders are under way at once
C30_Witness ==
    /\ ret.kind = "browser"
    /\ ret.launches = 1
    /\ \E a, b, c \in Callers :
          /\ a # b /\ b # c /\ a # c
          /\ ret.pc[a] = "raised" /\ ret.browser[a] = 0
          /\ ret.pc[b] = "render"
          /\ ret.pc[c] = "render"

(***************************************************************************)
(* Properties of the render queue.                                         *)
(***************************************************************************)
Reverse(seq) == [i \in 1..Len(seq) |-> seq[Len(seq) + 1 - i]]

\* C32: the ids BRPOP has returned, followed by the ids that wait in
\* render_queue from its tail to its head, are the ids in the order LPUSH
\* added them: the worker gets the ids in the order they were pushed
C32_Fifo ==
    ret.kind = "queue" => ret.pushes = ret.pops \o Reverse(render_queue)

\* two different ids waited together and came out in the order they went in
C32_Witness ==
    /\ ret.kind = "queue"
    /\ ret.depth = 2
    /\ ret.pushes = <<"t2", "t1">>
    /\ ret.pops = <<"t2", "t1">>

(***************************************************************************)
(* Properties of the PDF the bot serves.                                   *)
(***************************************************************************)
\* the PDF posted was rendered from the content stored at that time
ServedFromStored == ret.sent.of = ret.sent.task

\* the PDF posted is the handler's own document of the task
ServedOwnDocument == ret.sent.by = "bot"

\* C40: the PDF /start has posted for a task id was rendered from the
\* content stored under task:<id> at that time, never from content that a
\* later create request has replaced, and it is the handler's own document
\* of the task, never the render worker's
C40_ServedPdfCurrent ==
    (ret.kind = "serve" /\ ret.sent.id # "none") =>
       (ServedFromStored /\ ServedOwnDocument)

(***************************************************************************)
(* Properties of render_service.                                           *)
(***************************************************************************)
\* no key of task id t has run out of its TTL
Unexpired(t) == \A kind \in RKinds : rstore[<<kind, t>>] # "expired"

\* C3: once the processing of a dequeued task id has ended, normally or by an
\* exception, the task is not left with task_pending set and task_ready unset
C3_PendingCleared ==
    \A t \in TaskIds :
       (rHist[t] \in {"ended", "failed"} /\ Unexpired(t)) =>
          ~(rstore[<<"task_pending", t>>] = "1" /\ rstore[<<"task_ready", t>>] = "none")

\* C4: a task id whose ready marker is set has a result in the store, unless
\* an entry of that id has expired
C4_ReadyHasResult ==
    \A t \in TaskIds :
       (rstore[<<"task_ready", t>>] = "1" /\ Unexpired(t)) =>
          \/ rstore[<<"task_pdf", t>>] # "none"
          \/ rstore[<<"task_pdf_url", t>>] # "none"

\* C8: when the worker loop has exited on cancellation, every pass over a
\* task it had begun was completed: artifact stored, task_ready set,
\* task_pending cleared (entries that expired aside)
C8_RenderCompletes ==
    rPc = "exited" =>
       \A t \in TaskIds :
          rHist[t] = "active" =>
             /\ rstore[<<"task_pdf", t>>] # "none" \/ rstore[<<"task_pdf_url", t>>] # "none"
             /\ rstore[<<"task_ready", t>>] # "none"
             /\ rstore[<<"task_pending", t>>] # "1"

\* a step of render_task from the point where the artifact is rendered and
\* about to be cached: it goes on to notify_user_with_file
CacheThenNotify == rPc = "cache" => rPc' \in {"cache", "notify"}

\* C20: in render_task a rendered artifact is sent to the user whether or
\* not the write of the cached artifact to the store succeeds
C20_DeliveryDespiteCacheFailure == [][CacheThenNotify]_vars

\* the positions of a pass after its r.set of task_pending
PastClaim == {"load", "launch", "page", "cache", "notify", "mark_ready", "unpend"}

\* the worker has claimed t and the pass over it has not failed: it is
\* under way, or it has ended normally
Claimed(t) ==
    \/ rHist[t] = "ended"
    \/ rHist[t] = "active" /\ rTask = t /\ rPc \in PastClaim

\* C36: from the claim of a task id on, during a pass that completes
\* normally and after it, task_pending:<id> or task_ready:<id> is set
C36_MarkerVisible ==
    \A t \in TaskIds :
       Claimed(t) => (Live(rstore[<<"task_pending", t>>])
                        \/ Live(rstore[<<"task_ready", t>>]))

\* between the two writes that end a pass both markers are set
C36_Witness ==
    /\ rPc = "unpend"
    /\ rHist[rTask] = "active"
    /\ Live(rstore[<<"task_pending", rTask>>])
    /\ Live(rstore[<<"task_ready", rTask>>])
    /\ rHist["t2"] = "none"

\* C37: after a pass over a task id has ended normally (task_ready set,
\* task_pending deleted) and while the id has not been pushed again (it is
\* not waiting in render_queue and no later pass has popped it),
\* task_pending:<id> is absent
C37_PendingStaysAbsent ==
    \A t \in TaskIds :
       (rHist[t] = "ended" /\ ~InSeq(t, render_queue))
          => ~Live(rstore[<<"task_pending", t>>])

\* C38: when the worker has popped an id and is about to read task:<id>,
\* or has just read it, the entry is there (within its TTL, nothing having
\* deleted it)
C38_TaskBeforePush ==
    (rPc \in {"claim", "load"} /\ rHist[rTask] = "active")
       => Live(rstore[<<"task", rTask>>])

\* the worker reads the task of a request that has not finished yet
C38_Witness ==
    /\ rPc = "load"
    /\ rHist[rTask] = "active"
    /\ clickPc = "set_pending"
    /\ clickTask = rTask
    /\ Live(rstore[<<"task", rTask>>])

(***************************************************************************)
(* Properties of both dequeue loops.                                       *)
(***************************************************************************)
\* hf_worker.main: a timed-out pop changes neither the queue nor the results
\* and leads back to the pop; a failed queue read changes neither and leads,
\* through the back-off, back to the pop; only KeyboardInterrupt ends the loop
MainLoopStep ==
    /\ (mainPc = "brpop" /\ mainPc' \in {"polled", "backoff"}) =>
          UNCHANGED <<hf_queue, hf_result, job, work_queue>>
    /\ (mainPc \in {"polled", "backoff"} /\ mainPc' # mainPc) =>
          mainPc' \in {"brpop", "draining"}
    /\ mainPc' = "returned" => mainPc \in {"draining", "returned"}

\* render_service.worker_loop: the same, with cancellation as the only exit
WorkerLoopStep ==
    /\ (rPc = "brpop" /\ rPc' \in {"nap", "backoff"}) =>
          UNCHANGED <<render_queue, rstore>>
    /\ (rPc \in {"nap", "backoff"} /\ rPc' # rPc) =>
          rPc' \in {"brpop", "exited"}
    /\ rPc' = "exited" => rCancel'

\* a loop that is at its pop takes the item waiting in its queue
PopsWaiting ==
    /\ (svc = "hf" /\ mainPc = "brpop" /\ hf_queue # <<>>) => ENABLED BrpopItem
    /\ (svc = "render" /\ rPc = "brpop" /\ render_queue # <<>>) => ENABLED RPop

\* C10: neither dequeue loop ends because a pop timed out or the queue read
\* raised: a timeout changes no store state and the loop polls again, an
\* exception is followed by the back-off and the next pop, and an item pushed
\* meanwhile is taken by that pop
C10_LoopsSurvive ==
    [][MainLoopStep /\ WorkerLoopStep]_vars /\ []PopsWaiting

\* hf_worker's loop is in the back-off after a failed queue read, and an
\* item has been pushed
C10_Witness ==
    /\ svc = "hf"
    /\ mainPc = "backoff"
    /\ hf_queue # <<>>
    /\ done.j # 0

====
